---------------------------- MODULE Spec2Model ----------------------------
(***************************************************************************)
(* Model of the Bloomfilter MCP client (src/src/client.ts) and of the tool *)
(* handlers that drive it (src/src/tools/*.ts).                            *)
(*                                                                         *)
(* The client is a closure over three pieces of state: the configured      *)
(* private key, the wallet account derived from it, and the token cache.   *)
(* Every async function of the client runs on one JavaScript event loop,   *)
(* so the code between two awaits on I/O (a network response, a timer)     *)
(* runs without interruption.  One action of this model is one such run:   *)
(* it starts where a caller invokes an operation, a response arrives or a  *)
(* timer fires, and it ends at the next request, timer or result.          *)
(*                                                                         *)
(* Time is the value of Date.now() in milliseconds.  The remote service    *)
(* is the environment: every response is a nondeterministic choice among   *)
(* the replies the service can give.                                       *)
(***************************************************************************)
EXTENDS Integers, Sequences, FiniteSets, TLC

VARIABLES
    client,       \* the client createBloomfilterClient made: its transport
    privateKey,   \* config.privateKey: "" when no key is configured
    account,      \* address of the wallet account, "" when there is none
    tokenCache,   \* the token cache; present = FALSE models undefined
    now,          \* Date.now(), in ms
    issued,       \* service side: number of token sets issued so far
    lastWrite,    \* observation: the token response last stored in the cache
    proc          \* per caller: position in the code, locals, observations

vars == <<client, privateKey, account, tokenCache, now, issued, lastWrite, proc>>

-----------------------------------------------------------------------------
(* Program constants *)

JOB_POLL_INTERVAL_MS == 2000
JOB_TIMEOUT_MS == 300000
HTTP_TIMEOUT_MS == 30000
EXPIRY_MARGIN_MS == 60000
MS_PER_SECOND == 1000

\* setTimeout counts its delay on the event loop's clock, in whole
\* milliseconds: read with Date.now(), the callback can run this much before
\* the delay has passed.
TIMER_EARLY_MS == 1

(* Bounds of the model *)

MaxTime == 6000        \* the clock stops advancing here
MaxToolTime == 3000    \* the same, where a caller invokes tools
MaxIssued == 2         \* token sets the service issues in one behaviour

Procs == {1, 2}             \* callers that may have an operation in flight

ConfiguredKey == "0x0123456789abcdef0123456789abcdef0123456789abcdef0123456789abcdef"
ApiUrl == "https://api.bloomfilter.xyz"

Lifetimes == {60, 61, 63}          \* expiresIn values (seconds) the service returns
JobIds == {"job-1"}

-----------------------------------------------------------------------------
(* Tools (src/src/index.ts registers ten) *)

FreeTools == {"search_domains", "get_pricing"}
PollingTools == {"register_domain", "renew_domain"}
WalletTools == {"get_domain_info", "register_domain", "renew_domain",
                "list_dns_records", "add_dns_record", "update_dns_record",
                "delete_dns_record", "get_account"}
Tools == FreeTools \cup WalletTools

-----------------------------------------------------------------------------
(* Values *)

NoCache == [present |-> FALSE, accessToken |-> "", refreshToken |-> "", expiresAt |-> 0]

\* A response body (error.response.data).  truthy = FALSE models an absent
\* or empty body.  Each optional field has a flag saying whether it is there.
NoBody ==
    [truthy |-> FALSE, hasAccepts |-> FALSE, offers |-> <<>>,
     hasDescription |-> FALSE, description |-> "",
     hasMessage |-> FALSE, message |-> "", hasError |-> FALSE, error |-> "",
     hasDetail |-> FALSE, detail |-> "", hasCode |-> FALSE, code |-> ""]

\* A thrown value that is not an Error object.  kind is one of "string"
\* (text), "number" (num, an integer), "nan", "boolean" (flag), "null",
\* "undefined", "symbol" (text: its description), "object" (a plain object),
\* "stringable" (an object with a toString of its own, text: what it
\* returns), "array" (items: its elements) and "bare" (an object without a
\* prototype, as Object.create(null) makes).
NoValue == [kind |-> "", text |-> "", num |-> 0, flag |-> FALSE, items |-> <<>>]

\* A thrown value.  axios = TRUE is an AxiosError; hasResponse says whether
\* error.response is there; status/statusText/data are its fields, and
\* hasStatusText says whether statusText is there (not undefined or null).
\* baseURL is error.config?.baseURL, hasBaseURL whether it is there;
\* hasMessage whether error.message is.
\* instanceOfError = FALSE is a value that is no Error object, kept in value.
NoError ==
    [axios |-> FALSE, hasResponse |-> FALSE, status |-> 0,
     hasStatusText |-> FALSE, statusText |-> "",
     data |-> NoBody, code |-> "", hasMessage |-> TRUE, message |-> "",
     hasBaseURL |-> FALSE, baseURL |-> "",
     instanceOfError |-> TRUE, value |-> NoValue]

\* new Error(msg)
PlainError(msg) == [NoError EXCEPT !.message = msg]

\* Failures of a request as axios reports them: a 5xx reply with a JSON
\* body, and a request that got no reply within HTTP_TIMEOUT_MS.
Http500 ==
    [NoError EXCEPT
       !.axios = TRUE, !.hasResponse = TRUE, !.status = 500,
       !.hasStatusText = TRUE, !.statusText = "Internal Server Error",
       !.data = [NoBody EXCEPT !.truthy = TRUE, !.hasMessage = TRUE, !.message = "internal error",
                                        !.hasCode = TRUE, !.code = "INTERNAL"],
       !.code = "ERR_BAD_RESPONSE", !.message = "Request failed with status code 500",
       !.hasBaseURL = TRUE, !.baseURL = ApiUrl]

RequestTimeout ==
    [NoError EXCEPT
       !.axios = TRUE, !.code = "ECONNABORTED",
       !.message = "timeout of " \o ToString(HTTP_TIMEOUT_MS) \o "ms exceeded",
       !.hasBaseURL = TRUE, !.baseURL = ApiUrl]

RequestFailures == {Http500, RequestTimeout}

\* What createSiweMessage or account.signMessage throws when it cannot use
\* the fields of a nonce reply (the text is the wallet library's).
SignInMessageError ==
    [NoError EXCEPT !.message = "Invalid Sign-In with Ethereum message field \"nonce\"."]

\* What reading authData.accessToken throws when the body of the verify reply
\* is null (the text is the JavaScript engine's).
TokenBodyError ==
    [NoError EXCEPT !.message = "Cannot read properties of null (reading 'accessToken')"]

NoJob == [jobId |-> "", status |-> "", hasError |-> FALSE, error |-> "", hasResult |-> FALSE]

JobRecords(jobId) ==
    {[jobId |-> jobId, status |-> "pending", hasError |-> FALSE, error |-> "", hasResult |-> FALSE],
     [jobId |-> jobId, status |-> "processing", hasError |-> FALSE, error |-> "", hasResult |-> FALSE],
     [jobId |-> jobId, status |-> "completed", hasError |-> FALSE, error |-> "", hasResult |-> TRUE],
     [jobId |-> jobId, status |-> "failed", hasError |-> TRUE, error |-> "registrar rejected", hasResult |-> FALSE],
     [jobId |-> jobId, status |-> "failed", hasError |-> FALSE, error |-> "", hasResult |-> FALSE]}

\* The n-th token set the service issues, with lifetime e (seconds).
TokenResponse(n, e) ==
    [accessToken |-> "access-" \o ToString(n),
     refreshToken |-> "refresh-" \o ToString(n),
     expiresIn |-> e]

NoNonce == [nonce |-> "", domain |-> "", uri |-> "", chainId |-> 0]

NonceResponses ==
    {[nonce |-> n, domain |-> "api.bloomfilter.xyz", uri |-> "https://api.bloomfilter.xyz",
      chainId |-> 8453] : n \in {"nonce-a"}}
    \cup {[nonce |-> "nonce-b", domain |-> "staging.bloomfilter.xyz",
           uri |-> "https://staging.bloomfilter.xyz/auth", chainId |-> 84532]}

NoRequest == [method |-> "", path |-> "", headers |-> {}, body |-> {}]

NoResult == [isError |-> FALSE, text |-> ""]

NoOutcome == [kind |-> "none", headers |-> {}, job |-> NoJob, result |-> NoResult,
              error |-> NoError]

\* How an operation ends: it returns (a job record, a tool result, headers
\* or nothing) or it throws.
ReturnJob(job) == [NoOutcome EXCEPT !.kind = "return", !.job = job]
ReturnResult(res) == [NoOutcome EXCEPT !.kind = "return", !.result = res]
Thrown(err) == [NoOutcome EXCEPT !.kind = "throw", !.error = err]

\* The apiUrl argument of formatToolError, which is optional.
NoApiUrl == [has |-> FALSE, text |-> ""]

NoWrite ==
    [flow |-> "", at |-> 0,
     data |-> [accessToken |-> "", refreshToken |-> "", expiresIn |-> 0]]

NoCounts == [nonce |-> 0, verify |-> 0, refresh |-> 0, status |-> 0, api |-> 0]

-----------------------------------------------------------------------------
(* Config validation (configSchema) *)

\* A text is a sequence of one-character strings; Str gives the string.
RECURSIVE Str(_)
Str(chars) == IF chars = <<>> THEN "" ELSE Head(chars) \o Str(Tail(chars))

Digits == {"0", "1", "2", "3", "4", "5", "6", "7", "8", "9"}
LowerLetters ==
    {"a", "b", "c", "d", "e", "f", "g", "h", "i", "j", "k", "l", "m",
     "n", "o", "p", "q", "r", "s", "t", "u", "v", "w", "x", "y", "z"}
UpperLetters ==
    {"A", "B", "C", "D", "E", "F", "G", "H", "I", "J", "K", "L", "M",
     "N", "O", "P", "Q", "R", "S", "T", "U", "V", "W", "X", "Y", "Z"}
HexDigits == Digits \cup {"a", "b", "c", "d", "e", "f", "A", "B", "C", "D", "E", "F"}

AllIn(chars, class) == \A i \in 1..Len(chars) : chars[i] \in class

StartsWith(chars, prefix) ==
    Len(chars) >= Len(prefix) /\ SubSeq(chars, 1, Len(prefix)) = prefix

After(chars, n) == SubSeq(chars, n + 1, Len(chars))

\* /^eip155:\d+$/
NetworkRegex(network) ==
    /\ StartsWith(network, <<"e", "i", "p", "1", "5", "5", ":">>)
    /\ Len(network) > 7
    /\ AllIn(After(network, 7), Digits)

\* /^0x[0-9a-fA-F]{64}$/
PrivateKeyRegex(key) ==
    /\ StartsWith(key, <<"0", "x">>)
    /\ Len(key) = 66
    /\ AllIn(After(key, 2), HexDigits)

\* z.string().url() accepts the texts new URL(text) parses.  What follows is
\* the URL parser of the WHATWG URL standard, without a base URL, as far as
\* it can fail.  A URL text is made of the ASCII characters; a character
\* outside ASCII is written by the percent escapes of its UTF-8 bytes.

\* The characters of the codes 32 to 126, in their order; the grave accent,
\* which a string of this language cannot hold, is written <grave>.
AsciiPrintable ==
    <<" ", "!", "\"", "#", "$", "%", "&", "'", "(", ")", "*", "+", ",", "-", ".", "/",
      "0", "1", "2", "3", "4", "5", "6", "7", "8", "9", ":", ";", "<", "=", ">", "?",
      "@", "A", "B", "C", "D", "E", "F", "G", "H", "I", "J", "K", "L", "M", "N", "O",
      "P", "Q", "R", "S", "T", "U", "V", "W", "X", "Y", "Z", "[", "\\", "]", "^", "_",
      "<grave>", "a", "b", "c", "d", "e", "f", "g", "h", "i", "j", "k", "l", "m", "n",
      "o", "p", "q", "r", "s", "t", "u", "v", "w", "x", "y", "z", "{", "|", "}", "~">>

\* The code of a character.  <null> is U+0000, <delete> U+007F, and <control>
\* stands for the C0 control characters that have no name of their own here.
CodeOf(c) ==
    CASE c = "<null>" -> 0
      [] c = "<control>" -> 1
      [] c = "\t" -> 9
      [] c = "\n" -> 10
      [] c = "\f" -> 12
      [] c = "\r" -> 13
      [] c = "<delete>" -> 127
      [] OTHER -> 31 + (CHOOSE i \in 1..Len(AsciiPrintable) : AsciiPrintable[i] = c)

LowerCase(chars) ==
    [i \in 1..Len(chars) |->
        IF chars[i] \in UpperLetters THEN AsciiPrintable[CodeOf(chars[i]) + 1]
        ELSE chars[i]]

\* The value of a hexadecimal digit, in either case.
HexValue(c) ==
    IF c \in Digits THEN CodeOf(c) - CodeOf("0")
    ELSE ((CodeOf(c) - CodeOf("A")) % 32) + 10

\* The index of the first element of chars that is in class, Len(chars) + 1
\* when there is none.
FirstIndex(chars, class) ==
    IF \E i \in 1..Len(chars) : chars[i] \in class
    THEN CHOOSE i \in 1..Len(chars) :
             chars[i] \in class /\ \A j \in 1..(i - 1) : chars[j] \notin class
    ELSE Len(chars) + 1

\* chars cut at each occurrence of sep.
RECURSIVE Split(_, _)
Split(chars, sep) ==
    LET i == FirstIndex(chars, {sep})
    IN  IF i > Len(chars) THEN <<chars>>
        ELSE <<SubSeq(chars, 1, i - 1)>> \o Split(After(chars, i), sep)

\* Numbers are held by two limbs, hi * 2^16 + lo, with hi kept at 2^16 for
\* every number from 2^32 on.
LIMB == 65536

\* The number the digits write in the radix, after acc.
RECURSIVE NumberOf(_, _, _)
NumberOf(digits, radix, acc) ==
    IF digits = <<>> THEN acc
    ELSE LET lo == acc.lo * radix + HexValue(Head(digits))
             hi == acc.hi * radix + (lo \div LIMB)
         IN  NumberOf(Tail(digits), radix,
                      [hi |-> IF hi > LIMB THEN LIMB ELSE hi, lo |-> lo % LIMB])

\* number < 256^k, for k from 1 to 4.
Below256Power(number, k) ==
    CASE k = 1 -> number.hi = 0 /\ number.lo < 256
      [] k = 2 -> number.hi = 0
      [] k = 3 -> number.hi < 256
      [] OTHER -> number.hi < LIMB

\* Leading and trailing C0 control characters and spaces are stripped, tabs
\* and newlines removed everywhere.
RECURSIVE UrlInput(_)
UrlInput(url) ==
    LET blanks == {" ", "\t", "\n", "\f", "\r", "<null>", "<control>"}
    IN  IF url # <<>> /\ Head(url) \in blanks THEN UrlInput(Tail(url))
        ELSE IF url # <<>> /\ url[Len(url)] \in blanks
        THEN UrlInput(SubSeq(url, 1, Len(url) - 1))
        ELSE SelectSeq(url, LAMBDA c : c \notin {"\t", "\n", "\r"})

\* The scheme of a URL text, in lower case, <<>> when it has none: a letter
\* followed by letters, digits, +, - or . up to a colon.
UrlScheme(url) ==
    LET input == UrlInput(url)
        SchemeChars == LowerLetters \cup UpperLetters \cup Digits \cup {"+", "-", "."}
        i == FirstIndex(input, {c \in {input[k] : k \in 1..Len(input)} :
                                    c \notin SchemeChars})
    IN  IF /\ input # <<>>
           /\ Head(input) \in LowerLetters \cup UpperLetters
           /\ i <= Len(input)
           /\ input[i] = ":"
        THEN LowerCase(SubSeq(input, 1, i - 1))
        ELSE <<>>

RECURSIVE DropSlashes(_, _)
DropSlashes(chars, slashes) ==
    IF chars # <<>> /\ Head(chars) \in slashes
    THEN DropSlashes(Tail(chars), slashes) ELSE chars

\* The bytes of a text, its percent escapes replaced by the bytes they write.
RECURSIVE PercentDecode(_)
PercentDecode(chars) ==
    IF chars = <<>> THEN <<>>
    ELSE IF /\ Head(chars) = "%"
            /\ Len(chars) >= 3
            /\ chars[2] \in HexDigits
            /\ chars[3] \in HexDigits
    THEN <<16 * HexValue(chars[2]) + HexValue(chars[3])>> \o PercentDecode(After(chars, 3))
    ELSE <<CodeOf(Head(chars))>> \o PercentDecode(Tail(chars))

\* The code points UTF-8 bytes write.  A byte that begins no well-formed
\* sequence gives U+FFFD, and the decoding goes on after it.
RECURSIVE Utf8Decode(_)
Utf8Decode(bytes) ==
    IF bytes = <<>> THEN <<>>
    ELSE LET b == Head(bytes)
             more == IF b \in 194..223 THEN 1
                     ELSE IF b \in 224..239 THEN 2
                     ELSE IF b \in 240..244 THEN 3
                     ELSE 0
             lower == IF b = 224 THEN 160 ELSE IF b = 240 THEN 144 ELSE 128
             upper == IF b = 237 THEN 159 ELSE IF b = 244 THEN 143 ELSE 191
             wellFormed ==
                 /\ more > 0
                 /\ Len(bytes) > more
                 /\ bytes[2] \in lower..upper
                 /\ \A j \in 3..(more + 1) : bytes[j] \in 128..191
             lead == IF more = 1 THEN b - 192 ELSE IF more = 2 THEN b - 224 ELSE b - 240
             codePoint ==
                 IF more = 1 THEN lead * 64 + (bytes[2] - 128)
                 ELSE IF more = 2
                 THEN lead * 4096 + (bytes[2] - 128) * 64 + (bytes[3] - 128)
                 ELSE lead * 262144 + (bytes[2] - 128) * 4096
                          + (bytes[3] - 128) * 64 + (bytes[4] - 128)
         IN  IF b < 128 THEN <<b>> \o Utf8Decode(Tail(bytes))
             ELSE IF wellFormed THEN <<codePoint>> \o Utf8Decode(After(bytes, more + 1))
             ELSE <<65533>> \o Utf8Decode(Tail(bytes))

\* The status of a code point in the IDNA mapping table (UTS 46, without the
\* STD3 rules), for ASCII, the C1 control characters, the soft hyphen, the
\* letters of the Latin-1 supplement, the basic Cyrillic letters, the zero
\* width space and U+FFFD; "unknown" for every code point the table here
\* leaves out.  The mapped ones are capital letters, which map to their
\* small letters.
CodePointStatus(cp) ==
    CASE cp \in 65..90 -> "mapped"
      [] cp \in 0..127 -> "valid"
      [] cp \in 128..159 \/ cp = 65533 -> "disallowed"
      [] cp = 173 \/ cp = 8203 -> "ignored"
      [] cp \in 192..222 /\ cp # 215 -> "mapped"
      [] cp \in 223..255 /\ cp # 247 -> "valid"
      [] cp \in 1024..1071 -> "mapped"
      [] cp \in 1072..1119 \/ cp = 1231 -> "valid"
      [] OTHER -> "unknown"

MAX_INT32 == 2147483647

\* Punycode (RFC 3492): one generalized variable-length integer read from
\* input and added to i with the weight w, k being the position's base
\* multiple.  It fails on the end of the input, on a character that is no
\* digit (a to z are 0 to 25, 0 to 9 are 26 to 35) and on overflow.
RECURSIVE PunycodeInteger(_, _, _, _, _)
PunycodeInteger(input, i, w, k, bias) ==
    LET code == Head(input)
        digit == IF code \in 97..122 THEN code - 97
                 ELSE IF code \in 48..57 THEN code - 22
                 ELSE -1
        t == IF k <= bias THEN 1 ELSE IF k >= bias + 26 THEN 26 ELSE k - bias
        failure == [ok |-> FALSE, i |-> 0, rest |-> <<>>]
    IN  IF input = <<>> THEN failure
        ELSE IF digit < 0 \/ digit > (MAX_INT32 - i) \div w THEN failure
        ELSE IF digit < t THEN [ok |-> TRUE, i |-> i + digit * w, rest |-> Tail(input)]
        ELSE IF w > MAX_INT32 \div (36 - t) THEN failure
        ELSE PunycodeInteger(Tail(input), i + digit * w, w * (36 - t), k + 36, bias)

\* The bias adaptation of Punycode, after delta has been scaled.
RECURSIVE PunycodeAdapt(_, _)
PunycodeAdapt(delta, k) ==
    IF delta > 455 THEN PunycodeAdapt(delta \div 35, k + 36)
    ELSE k + (36 * delta) \div (delta + 38)

\* The Punycode decoder: the code points the digits of input insert into
\* out, n being the last code point inserted and i the place after it.
RECURSIVE PunycodeDecode(_, _, _, _, _)
PunycodeDecode(input, out, n, i, bias) ==
    LET number == PunycodeInteger(input, i, 1, 36, bias)
        count == Len(out) + 1
        delta == IF i = 0 THEN (number.i - i) \div 700 ELSE (number.i - i) \div 2
        codePoint == n + number.i \div count
        at == number.i % count
    IN  IF input = <<>> THEN [ok |-> TRUE, out |-> out]
        ELSE IF ~number.ok \/ number.i \div count > MAX_INT32 - n
        THEN [ok |-> FALSE, out |-> <<>>]
        ELSE PunycodeDecode(number.rest,
                            SubSeq(out, 1, at) \o <<codePoint>> \o After(out, at),
                            codePoint, at + 1,
                            PunycodeAdapt(delta + delta \div count, 0))

\* A label of a domain name, as code points after the mapping, is "accepted",
\* "rejected", or "unknown" where the verdict takes more of the Unicode
\* tables than are here.  whole tells whether the whole domain was ASCII.
\* A label that begins with xn-- is decoded: what it stands for is not empty
\* and is made of valid code points only.  A label outside ASCII is made of
\* valid code points and passes the rules for combining marks, joiners and
\* text direction; labels of letters, digits and hyphens that begin with a
\* letter and end with a letter or digit do.  A label outside ASCII that
\* begins with xn-- is not valid.  An ASCII label of a domain that is ASCII
\* as a whole is not looked at.
LabelVerdict(label, whole) ==
    LET Letters == (97..122) \cup (223..246) \cup (248..255) \cup (1072..1119) \cup {1231}
        Plain(cps) ==
            /\ \A j \in 1..Len(cps) : cps[j] \in Letters \cup (48..57) \cup {45}
            /\ cps[1] \in Letters
            /\ cps[Len(cps)] \in Letters \cup (48..57)
        Statuses(cps) == {CodePointStatus(cps[j]) : j \in 1..Len(cps)}
        encoded == After(label, 4)
        hyphens == {j \in 1..Len(encoded) : encoded[j] = 45}
        last == IF hyphens = {} THEN 0 ELSE CHOOSE j \in hyphens : \A h \in hyphens : h <= j
        decoded == PunycodeDecode(After(encoded, last), SubSeq(encoded, 1, last - 1),
                                  128, 0, 72)
    IN  IF label = <<>> THEN "accepted"
        ELSE IF (\A j \in 1..Len(label) : label[j] < 128)
                /\ StartsWith(label, <<120, 110, 45, 45>>)
        THEN IF ~decoded.ok \/ decoded.out = <<>> THEN "rejected"
             ELSE IF Statuses(decoded.out) \cap {"disallowed", "mapped", "ignored"} # {}
             THEN "rejected"
             ELSE IF StartsWith(decoded.out, <<120, 110, 45, 45>>) THEN "unknown"
             ELSE IF Statuses(decoded.out) = {"valid"} /\ Plain(decoded.out) THEN "accepted"
             ELSE "unknown"
        ELSE IF whole THEN "accepted"
        ELSE IF Statuses(label) = {"valid"} /\ StartsWith(label, <<120, 110, 45, 45>>)
        THEN "rejected"
        ELSE IF Statuses(label) = {"valid"} /\ Plain(label) THEN "accepted"
        ELSE "unknown"

\* A domain that ends in a number is an IPv4 address: at most four numbers,
\* all but the last below 256, the last one filling the bytes that remain.
\* The parts stand between the dots, one empty part at the end left out; the
\* domain ends in a number when its last part is made of digits or is a
\* number by the number parser: decimal, octal after 0, hexadecimal after 0x.
IPv4Accepted(domain) ==
    LET IPv4Number(part) ==
            LET hex == Len(part) >= 2 /\ part[1] = "0" /\ part[2] \in {"x", "X"}
                octal == ~hex /\ Len(part) >= 2 /\ part[1] = "0"
                digits == IF hex THEN After(part, 2) ELSE IF octal THEN Tail(part) ELSE part
                radix == IF hex THEN 16 ELSE IF octal THEN 8 ELSE 10
            IN  IF /\ part # <<>>
                   /\ \A i \in 1..Len(digits) :
                          digits[i] \in HexDigits /\ HexValue(digits[i]) < radix
                THEN [ok |-> TRUE, number |-> NumberOf(digits, radix, [hi |-> 0, lo |-> 0])]
                ELSE [ok |-> FALSE, number |-> [hi |-> 0, lo |-> 0]]
        split == Split(domain, ".")
        parts == IF split[Len(split)] = <<>> /\ Len(split) > 1
                 THEN SubSeq(split, 1, Len(split) - 1) ELSE split
        n == Len(parts)
        EndsInNumber ==
            \/ parts[n] # <<>> /\ AllIn(parts[n], Digits)
            \/ IPv4Number(parts[n]).ok
    IN  EndsInNumber =>
            /\ n <= 4
            /\ \A i \in 1..n : IPv4Number(parts[i]).ok
            /\ \A i \in 1..(n - 1) : Below256Power(IPv4Number(parts[i]).number, 1)
            /\ Below256Power(IPv4Number(parts[n]).number, 5 - n)

\* The pieces of an IPv6 address from chars on, pieceIndex pieces being read
\* already and compressed telling whether :: has been seen.  A piece is up
\* to four hexadecimal digits; the address may end in an IPv4 address of four
\* decimal numbers up to 255, none with a leading zero, which fills two pieces.
RECURSIVE IPv6Pieces(_, _, _)
IPv6Pieces(chars, pieceIndex, compressed) ==
    IF chars = <<>> THEN compressed \/ pieceIndex = 8
    ELSE IF pieceIndex = 8 THEN FALSE
    ELSE IF Head(chars) = ":"
    THEN ~compressed /\ IPv6Pieces(Tail(chars), pieceIndex + 1, TRUE)
    ELSE LET stop == FirstIndex(chars, {c \in {chars[k] : k \in 1..Len(chars)} :
                                            c \notin HexDigits})
             length == IF stop > 5 THEN 4 ELSE stop - 1
             rest == After(chars, length)
             parts == Split(chars, ".")
         IN  IF rest = <<>> THEN compressed \/ pieceIndex + 1 = 8
             ELSE IF Head(rest) = "."
             THEN /\ length > 0
                  /\ pieceIndex <= 6
                  /\ Len(parts) = 4
                  /\ \A i \in 1..4 :
                        /\ parts[i] # <<>>
                        /\ AllIn(parts[i], Digits)
                        /\ Len(parts[i]) = 1 \/ Head(parts[i]) # "0"
                        /\ Below256Power(NumberOf(parts[i], 10, [hi |-> 0, lo |-> 0]), 1)
                  /\ compressed \/ pieceIndex + 2 = 8
             ELSE IF Head(rest) = ":"
             THEN Tail(rest) # <<>> /\ IPv6Pieces(Tail(rest), pieceIndex + 1, compressed)
             ELSE FALSE

\* The host parser: "accepted", "rejected" or, where a label's verdict is,
\* "unknown".  A host in brackets is an IPv6 address, which begins with a
\* colon only when it begins with two; the host of a URL whose scheme is not
\* special is opaque and holds no forbidden host code point; every other
\* host is a domain.  A domain is percent-decoded, read as UTF-8, mapped
\* (capital letters made small, ignored code points left out) and cut into
\* labels, each label outside ASCII replaced by its xn-- form; the result is
\* not empty, holds no forbidden domain code point, and is an IPv4 address
\* when it ends in a number.
ParseHost(host, opaque) ==
    LET address == SubSeq(host, 2, Len(host) - 1)
        decoded == Utf8Decode(PercentDecode(host))
        kept == SelectSeq(decoded, LAMBDA cp : CodePointStatus(cp) # "ignored")
        mapped == [i \in 1..Len(kept) |->
                      IF CodePointStatus(kept[i]) # "mapped" THEN kept[i]
                      ELSE IF kept[i] \in 1024..1039 THEN kept[i] + 80
                      ELSE kept[i] + 32]
        whole == \A i \in 1..Len(decoded) : decoded[i] < 128
        labels == Split(mapped, 46)
        verdicts == {LabelVerdict(labels[i], whole) : i \in 1..Len(labels)}
        \* the ASCII form, but for the xn-- labels that replace the labels
        \* outside ASCII, which are no numbers: a z stands for each code
        \* point outside ASCII
        ascii == [i \in 1..Len(mapped) |-> IF mapped[i] < 128 THEN mapped[i] ELSE 122]
        ForbiddenDomainCodes ==
            (0..32) \cup {35, 37, 47, 58, 60, 62, 63, 64, 91, 92, 93, 94, 124, 127}
    IN  IF host # <<>> /\ Head(host) = "["
        THEN IF /\ host[Len(host)] = "]"
                /\ IF address # <<>> /\ Head(address) = ":"
                   THEN /\ Len(address) >= 2
                        /\ address[2] = ":"
                        /\ IPv6Pieces(After(address, 2), 1, TRUE)
                   ELSE IPv6Pieces(address, 0, FALSE)
             THEN "accepted" ELSE "rejected"
        ELSE IF opaque
        THEN IF \A i \in 1..Len(host) :
                    host[i] \notin {"<null>", " ", "#", "/", ":", "<", ">", "?", "@",
                                    "[", "\\", "]", "^", "|"}
             THEN "accepted" ELSE "rejected"
        ELSE IF \/ mapped = <<>>
                \/ \E i \in 1..Len(mapped) :
                       \/ mapped[i] \in ForbiddenDomainCodes
                       \/ CodePointStatus(mapped[i]) = "disallowed"
                \/ "rejected" \in verdicts
        THEN "rejected"
        ELSE IF "unknown" \in verdicts THEN "unknown"
        ELSE IF IPv4Accepted([i \in 1..Len(ascii) |-> AsciiPrintable[ascii[i] - 31]])
        THEN "accepted" ELSE "rejected"

MAX_PORT == 65535

\* The authority: what stands before the path, the query or the fragment.
\* Host and port stand after its last @, and are not empty when there is
\* one.  The port follows the first colon outside brackets: digits that
\* write a number up to 65535, or nothing; the host before it is not empty,
\* and the host of a special scheme never is.  The verdict is the host's
\* when all that holds.
ParseAuthority(chars, special) ==
    LET enders == {"/", "?", "#"} \cup (IF special THEN {"\\"} ELSE {})
        authority == SubSeq(chars, 1, FirstIndex(chars, enders) - 1)
        ats == {i \in 1..Len(authority) : authority[i] = "@"}
        at == IF ats = {} THEN 0 ELSE CHOOSE i \in ats : \A j \in ats : j <= i
        hostport == After(authority, at)
        colons == {i \in 1..Len(hostport) :
                      /\ hostport[i] = ":"
                      /\ \A j \in 1..(i - 1) :
                             hostport[j] = "[" =>
                                 \E k \in (j + 1)..(i - 1) : hostport[k] = "]"}
        colon == CHOOSE i \in colons : \A j \in colons : i <= j
        port == After(hostport, colon)
        number == NumberOf(port, 10, [hi |-> 0, lo |-> 0])
    IN  IF ats # {} /\ hostport = <<>> THEN "rejected"
        ELSE IF colons # {}
        THEN IF /\ colon > 1
                /\ AllIn(port, Digits)
                /\ number.hi = 0 /\ number.lo <= MAX_PORT
             THEN ParseHost(SubSeq(hostport, 1, colon - 1), ~special)
             ELSE "rejected"
        ELSE IF special /\ hostport = <<>> THEN "rejected"
        ELSE ParseHost(hostport, ~special)

\* z.string().url(): whether new URL(url) returns ("accepted"), throws
\* ("rejected"), or does the one or the other by what its host stands for
\* ("unknown").  The text has a scheme.  After a special scheme (http,
\* https, ftp, ws, wss) slashes are skipped and an authority follows; after
\* file: and two slashes comes a host, which may be empty or a drive letter;
\* after another scheme an authority follows two slashes, and anything else
\* is a path.
ParseUrl(url) ==
    LET scheme == UrlScheme(url)
        rest == After(UrlInput(url), Len(scheme) + 1)
        slashes == {"/", "\\"}
        fileRest == After(rest, 2)
        fileHost == SubSeq(fileRest, 1, FirstIndex(fileRest, slashes \cup {"?", "#"}) - 1)
    IN  IF scheme = <<>> THEN "rejected"
        ELSE CASE Str(scheme) = "file" ->
                    IF \/ ~(Len(rest) >= 2 /\ rest[1] \in slashes /\ rest[2] \in slashes)
                       \/ fileHost = <<>>
                       \/ /\ Len(fileHost) = 2
                          /\ fileHost[1] \in LowerLetters \cup UpperLetters
                          /\ fileHost[2] \in {":", "|"}
                    THEN "accepted"
                    ELSE ParseHost(fileHost, FALSE)
               [] Str(scheme) \in {"http", "https", "ftp", "ws", "wss"} ->
                    ParseAuthority(DropSlashes(rest, slashes), TRUE)
               [] StartsWith(rest, <<"/", "/">>) -> ParseAuthority(After(rest, 2), FALSE)
               [] OTHER -> "accepted"

\* configSchema.parse(config): TRUE when it returns, FALSE when it throws;
\* both where the verdict on the URL is not known here.
ConfigSchemaParse(config) ==
    IF ~((config.hasPrivateKey => PrivateKeyRegex(config.privateKey))
         /\ NetworkRegex(config.network))
    THEN {FALSE}
    ELSE CASE ParseUrl(config.apiUrl) = "accepted" -> {TRUE}
           [] ParseUrl(config.apiUrl) = "rejected" -> {FALSE}
           [] OTHER -> BOOLEAN

-----------------------------------------------------------------------------
(* Pure functions of the client *)

\* Mutant: the comparison turned around.
TokenValid_Inverted(cache, t) == t > cache.expiresAt

\* Date.now() < tokenCache.expiresAt
TokenValid(cache, t) == t < cache.expiresAt

\* Mutant: the two tokens stored in each other's place.
CacheFromVerify_Swapped(authData, t) ==
    [present |-> TRUE,
     accessToken |-> authData.refreshToken,
     refreshToken |-> authData.accessToken,
     expiresAt |-> t + authData.expiresIn * MS_PER_SECOND - EXPIRY_MARGIN_MS]

\* Mutant: a cache that is already there is kept.
CacheFromVerify_FirstWins(authData, t) ==
    IF tokenCache.present THEN tokenCache
    ELSE [present |-> TRUE,
          accessToken |-> authData.accessToken,
          refreshToken |-> authData.refreshToken,
          expiresAt |-> t + authData.expiresIn * MS_PER_SECOND - EXPIRY_MARGIN_MS]

\* The cache entry authenticate() builds from the /auth/verify reply.
CacheFromVerify(authData, t) ==
    [present |-> TRUE,
     accessToken |-> authData.accessToken,
     refreshToken |-> authData.refreshToken,
     expiresAt |-> t + authData.expiresIn * MS_PER_SECOND - EXPIRY_MARGIN_MS]

\* Mutant: the lifetime taken for milliseconds.
CacheFromRefresh_Millis(data, t) ==
    [present |-> TRUE,
     accessToken |-> data.accessToken,
     refreshToken |-> data.refreshToken,
     expiresAt |-> t + data.expiresIn - EXPIRY_MARGIN_MS]

\* Mutant: no safety margin.
CacheFromRefresh_NoMargin(data, t) ==
    [present |-> TRUE,
     accessToken |-> data.accessToken,
     refreshToken |-> data.refreshToken,
     expiresAt |-> t + data.expiresIn * MS_PER_SECOND]

\* The cache entry refreshAuth() builds from the /auth/refresh reply.
CacheFromRefresh(data, t) ==
    [present |-> TRUE,
     accessToken |-> data.accessToken,
     refreshToken |-> data.refreshToken,
     expiresAt |-> t + data.expiresIn * MS_PER_SECOND - EXPIRY_MARGIN_MS]

\* Mutant: no header for a token that has expired.
GetAuthHeaders_ChecksExpiry(cache) ==
    IF ~cache.present \/ now >= cache.expiresAt THEN {}
    ELSE {<<"Authorization", "Bearer " \o cache.accessToken>>}

\* A header set is a set of <<name, value>> pairs.
GetAuthHeaders(cache) ==
    IF ~cache.present THEN {}
    ELSE {<<"Authorization", "Bearer " \o cache.accessToken>>}

KeyRequiredResult ==
    [isError |-> TRUE,
     text |-> "Error: BLOOMFILTER_PRIVATE_KEY is required for this operation. "
              \o "Set it as an environment variable to enable domain registration, "
              \o "renewal, DNS management, and account access.\n\n"
              \o "Example: BLOOMFILTER_PRIVATE_KEY=0x... bloomfilter-mcp"]

\* requiresPrivateKey(): NoResult models the null it returns when a key is set.
RequiresPrivateKey(key) == IF key # "" THEN NoResult ELSE KeyRequiredResult

MissingKeyError ==
    PlainError("BLOOMFILTER_PRIVATE_KEY is required for authenticated operations")

RECURSIVE StringThrows(_)
RECURSIVE StringError(_)
RECURSIVE StringOf(_)
RECURSIVE JoinItems(_)

\* String(value) throws a TypeError: the value is an object without a
\* prototype, which has no toString, or an array with such an element or
\* with a symbol, which join() cannot convert.
StringThrows(value) ==
    CASE value.kind = "bare" -> TRUE
      [] value.kind = "array" ->
           \E i \in 1..Len(value.items) :
               value.items[i].kind = "symbol" \/ StringThrows(value.items[i])
      [] OTHER -> FALSE

\* The TypeError String(value) throws then: join() converts the elements from
\* left to right, so an array throws what its first failing element throws.
StringError(value) ==
    IF value.kind = "array"
    THEN LET failing == {i \in 1..Len(value.items) :
                            value.items[i].kind = "symbol" \/ StringThrows(value.items[i])}
             first == CHOOSE i \in failing : \A j \in failing : i <= j
         IN  IF value.items[first].kind = "symbol"
             THEN [NoError EXCEPT !.message = "Cannot convert a Symbol value to a string"]
             ELSE StringError(value.items[first])
    ELSE [NoError EXCEPT !.message = "Cannot convert object to primitive value"]

\* Array.prototype.join: the elements as strings, null and undefined as the
\* empty string, with commas between.
JoinItems(items) ==
    IF items = <<>> THEN ""
    ELSE LET first == IF Head(items).kind \in {"null", "undefined"} THEN ""
                      ELSE StringOf(Head(items))
         IN  IF Len(items) = 1 THEN first
             ELSE first \o "," \o JoinItems(Tail(items))

\* String(value) for a value that is no Error object, when it does not throw.
StringOf(value) ==
    CASE value.kind = "string" -> value.text
      [] value.kind = "number" -> ToString(value.num)
      [] value.kind = "nan" -> "NaN"
      [] value.kind = "boolean" -> IF value.flag THEN "true" ELSE "false"
      [] value.kind = "null" -> "null"
      [] value.kind = "undefined" -> "undefined"
      [] value.kind = "symbol" -> "Symbol(" \o value.text \o ")"
      [] value.kind = "stringable" -> value.text
      [] value.kind = "array" -> JoinItems(value.items)
      [] OTHER -> "[object Object]"

\* Mutant: the cause is thrown on as it is.
AuthenticationFailed_Rethrown(err) == err

\* The catch block of authenticate(): the cause's message (String(err) for a
\* cause that is no Error object), prefixed.  A message that is not there
\* reads undefined.
AuthenticationFailed(err) ==
    IF ~err.instanceOfError /\ StringThrows(err.value)
    THEN StringError(err.value)
    ELSE PlainError("Authentication failed: "
                    \o (IF ~err.instanceOfError THEN StringOf(err.value)
                        ELSE IF err.hasMessage THEN err.message
                        ELSE "undefined"))

\* Mutant: the job's own message is dropped.
JobFailedError_Generic(jobId, data) ==
    PlainError("Job " \o jobId \o " failed: domain provisioning was unsuccessful")

JobFailedError(jobId, data) ==
    PlainError(IF data.hasError THEN data.error
               ELSE "Job " \o jobId \o " failed: domain provisioning was unsuccessful")

\* (the source's em dash is written -- here: the module is ASCII)
JobTimeoutError(jobId) ==
    PlainError("Job " \o jobId \o " timed out after "
               \o ToString(JOB_TIMEOUT_MS \div MS_PER_SECOND) \o "s. "
               \o "The domain may still be provisioning -- check status later with get_domain_info.")

\* Mutant: the chain of the default network instead of the reply's chainId.
SiweMessage_DefaultChain(address, nonceData, t) ==
    nonceData.domain \o " wants you to sign in with your Ethereum account:\n"
    \o address \o "\n\n\nURI: " \o nonceData.uri \o "\nVersion: 1\nChain ID: "
    \o "8453" \o "\nNonce: " \o nonceData.nonce
    \o "\nIssued At: " \o ToString(t)

\* createSiweMessage(): the EIP-4361 text binding the fields it is given.  No
\* statement is given, so the line of the statement is empty: three line
\* breaks stand between the address and the URI line.
SiweMessage(address, nonceData, t) ==
    nonceData.domain \o " wants you to sign in with your Ethereum account:\n"
    \o address \o "\n\n\nURI: " \o nonceData.uri \o "\nVersion: 1\nChain ID: "
    \o ToString(nonceData.chainId) \o "\nNonce: " \o nonceData.nonce
    \o "\nIssued At: " \o ToString(t)

\* account.signMessage(): the wallet library's signature over the message.
SignMessage(address, message) == "sig[" \o address \o "](" \o message \o ")"

-----------------------------------------------------------------------------
(* formatToolError *)

\* { content: [{ type: "text", text }], isError: true }
ErrorResult(text) == [isError |-> TRUE, text |-> text]

\* a ?? b ?? c over the optional message/error/detail fields of a body;
\* <<FALSE, "">> when none is there.
ServerMessage(data) ==
    IF data.hasMessage THEN <<TRUE, data.message>>
    ELSE IF data.hasError THEN <<TRUE, data.error>>
    ELSE IF data.hasDetail THEN <<TRUE, data.detail>>
    ELSE <<FALSE, "">>

\* accepts[0]?.price ?? accepts[0]?.amount, as the template string prints it:
\* a price that is null or not there gives way to the amount, whatever that
\* is, null included.
OfferAmount(offers) ==
    IF Len(offers) = 0 THEN "undefined"
    ELSE IF offers[1].hasPrice THEN offers[1].price
    ELSE IF offers[1].hasAmount THEN offers[1].amount
    ELSE IF offers[1].nullAmount THEN "null"
    ELSE "undefined"

\* Mutant: the 429 test made inside the block that needs a body.
IsRateLimited_NeedsBody(error) ==
    error.hasResponse /\ error.status = 429 /\ error.data.truthy

\* error.response?.status === 429
IsRateLimited(error) == error.hasResponse /\ error.status = 429

\* formatToolError(error, apiUrl): the result it returns, or the TypeError it
\* throws when String(error) does.  An error.message that is not there
\* reads undefined.
FormatToolError(error, apiUrl) ==
    IF error.axios
    THEN IF IsRateLimited(error)
         THEN ReturnResult(ErrorResult("Rate limited: "
                  \o (IF error.data.truthy /\ error.data.hasMessage
                      THEN error.data.message ELSE "Too many requests")
                  \o ". Please wait before retrying."))
         ELSE IF error.hasResponse /\ error.data.truthy
         THEN IF error.status = 402
              THEN IF error.data.hasAccepts
                   THEN ReturnResult(ErrorResult("Payment required: "
                            \o (IF error.data.hasDescription /\ error.data.description # ""
                                THEN error.data.description \o " requires payment of "
                                     \o OfferAmount(error.data.offers) \o " USDC"
                                ELSE "Payment of " \o OfferAmount(error.data.offers)
                                     \o " USDC required")
                            \o ". Ensure your wallet has sufficient USDC balance."))
                   ELSE ReturnResult(ErrorResult("Payment failed: "
                            \o (IF ServerMessage(error.data)[1]
                                THEN ServerMessage(error.data)[2]
                                ELSE "payment was attempted but could not be settled on-chain")
                            \o ". Check that your wallet has sufficient USDC balance on Base."))
              ELSE ReturnResult(ErrorResult("Error ["
                       \o (IF error.data.hasCode THEN error.data.code
                           ELSE "HTTP " \o ToString(error.status))
                       \o "]: "
                       \o (IF ServerMessage(error.data)[1]
                           THEN ServerMessage(error.data)[2]
                           ELSE IF error.hasStatusText THEN error.statusText
                           ELSE "Request failed with status " \o ToString(error.status))))
         ELSE IF error.code \in {"ECONNREFUSED", "ENOTFOUND"}
         THEN ReturnResult(ErrorResult("Failed to connect to Bloomfilter API at "
                  \o (IF apiUrl.has THEN apiUrl.text
                      ELSE IF error.hasBaseURL THEN error.baseURL
                      ELSE "unknown")
                  \o ". Check that the API is running and BLOOMFILTER_API_URL is correct."))
         ELSE IF error.code \in {"ECONNABORTED", "ERR_CANCELED"}
         THEN ReturnResult(ErrorResult(
                  "Request timed out. The Bloomfilter API may be slow or unreachable."))
         ELSE ReturnResult(ErrorResult("Request failed: "
                  \o (IF error.hasMessage THEN error.message ELSE "undefined")))
    ELSE IF error.instanceOfError
    THEN ReturnResult(ErrorResult("Error: "
             \o (IF error.hasMessage THEN error.message ELSE "undefined")))
    ELSE IF StringThrows(error.value)
    THEN Thrown(StringError(error.value))
    ELSE ReturnResult(ErrorResult("Error: " \o StringOf(error.value)))

-----------------------------------------------------------------------------
(* Per-caller state *)

\* What is recorded about a caller's latest run of ensureAuth: the time and
\* the cache at its start, the requests it issued in order, how its refresh
\* request ended ("ok", "failed", or "none" while there is no answer), how it
\* ended itself, and the time and the cache at its end.
NoAuthRun ==
    [outcome |-> "none", at |-> 0, before |-> NoCache, log |-> <<>>,
     refreshed |-> "none", doneAt |-> 0, after |-> NoCache, error |-> NoError,
     cause |-> NoError]

\* What is recorded about a caller's latest run of pollJobStatus: how many
\* polls saw pending/processing, when the last status reply arrived and when
\* the last status request was issued (-1: none yet), the last reply, how
\* many runs of ensureAuth the operation has started, and what a status
\* request failed with.
NoPollRun ==
    [nonTerminal |-> 0, respAt |-> -1, reqAt |-> -1, last |-> NoJob, authRuns |-> 0,
     error |-> NoError]

IdleProc ==
    [op |-> "",                \* the operation the caller invoked last
     pc |-> "idle",            \* the await the caller is suspended at
     stack |-> <<>>,           \* the frames of the call in progress, outermost first
     req |-> NoRequest,        \* the request in flight
     jobId |-> "",             \* pollJobStatus: its argument
     arg |-> NoError,          \* formatToolError: its argument error
     apiUrlArg |-> NoApiUrl,   \* formatToolError: its argument apiUrl
     nonceData |-> NoNonce,    \* authenticate: nonceData, once the reply is there
     apiStatus |-> 0,          \* the status of the last reply to the API request
     caught |-> NoError,       \* a tool handler: what its catch block caught
     startTime |-> 0,          \* pollJobStatus: startTime
     timerDue |-> 0,           \* pollJobStatus: when the setTimeout is due
     calls |-> NoCounts,       \* requests issued by the operation, by endpoint
     seen |-> NoCache,         \* the cache when the operation was invoked
     auth |-> NoAuthRun,
     poll |-> NoPollRun,
     outcome |-> NoOutcome]    \* how the latest operation ended

Top(stack) == IF stack = <<>> THEN "" ELSE stack[Len(stack)]
Pop(stack) == SubSeq(stack, 1, Len(stack) - 1)

\* The operation ends: the promise the caller holds settles.
Finish(st, out) ==
    [st EXCEPT !.pc = "idle", !.stack = <<>>, !.req = NoRequest, !.outcome = out]

\* Mutant: a tool handler without its try/catch.
Throw_Uncaught(st, err) == Finish(st, Thrown(err))

\* An error leaves ensureAuth or pollJobStatus.  Neither catches; a tool
\* handler's catch block turns it into a result, otherwise the operation
\* the caller invoked rejects.
Throw(st, err) ==
    IF st.stack # <<>> /\ st.stack[1] \in Tools
    THEN Finish([st EXCEPT !.caught = err], FormatToolError(err, NoApiUrl))
    ELSE Finish(st, Thrown(err))

\* httpClient.get/post/...: the request goes out and the caller awaits the
\* reply at `at`.
Send(st, endpoint, request, at) ==
    [st EXCEPT !.pc = at, !.req = request, !.calls[endpoint] = @ + 1,
               !.auth.log = IF Top(st.stack) = "ensureAuth" THEN Append(@, endpoint) ELSE @]

\* The text a tool handler returns on success (its formatting is not modelled).
ToolSuccess(tool) == [isError |-> FALSE, text |-> tool \o ": ok"]

DomainArg == "example.com"
RecordArg == "rec-1"

ApiRequest(tool, headers) ==
    CASE tool = "search_domains" ->
           [method |-> "GET", path |-> "/domains/search", headers |-> {}, body |-> {}]
      [] tool = "get_pricing" ->
           [method |-> "GET", path |-> "/domains/pricing", headers |-> {}, body |-> {}]
      [] tool = "get_domain_info" ->
           [method |-> "GET", path |-> "/domains/" \o DomainArg, headers |-> headers, body |-> {}]
      [] tool = "register_domain" ->
           [method |-> "POST", path |-> "/domains/register", headers |-> headers,
            body |-> {<<"domain", DomainArg>>, <<"years", "1">>}]
      [] tool = "renew_domain" ->
           [method |-> "POST", path |-> "/domains/renew", headers |-> headers,
            body |-> {<<"domain", DomainArg>>, <<"years", "1">>}]
      [] tool = "list_dns_records" ->
           [method |-> "GET", path |-> "/dns/" \o DomainArg, headers |-> headers, body |-> {}]
      [] tool = "add_dns_record" ->
           [method |-> "POST", path |-> "/dns/" \o DomainArg, headers |-> headers,
            body |-> {<<"type", "A">>, <<"host", "@">>, <<"value", "192.0.2.1">>}]
      [] tool = "update_dns_record" ->
           [method |-> "PUT", path |-> "/dns/" \o DomainArg \o "/" \o RecordArg,
            headers |-> headers, body |-> {<<"host", "@">>, <<"value", "192.0.2.1">>}]
      [] tool = "delete_dns_record" ->
           [method |-> "DELETE", path |-> "/dns/" \o DomainArg \o "/" \o RecordArg,
            headers |-> headers, body |-> {}]
      [] tool = "get_account" ->
           [method |-> "GET", path |-> "/account", headers |-> headers, body |-> {}]

\* The tool handler's request to the domain/DNS/account API.
SendApi(st, cache) ==
    Send(st, "api", ApiRequest(st.stack[1], GetAuthHeaders(cache)), "await_api")

\* pollJobStatus: the status request of one iteration.
SendStatus(st, cache, t) ==
    Send([st EXCEPT !.poll.reqAt = t], "status",
         [method |-> "GET", path |-> "/domains/status/" \o st.jobId,
          headers |-> GetAuthHeaders(cache), body |-> {}],
         "await_status")

-----------------------------------------------------------------------------
(* Session manager: ensureAuth, authenticate, refreshAuth *)

\* ensureAuth resolves: its caller goes on in the same turn of the event
\* loop.  pollJobStatus issues the status request, a tool handler its API
\* request; called on its own, the operation ends.
EnsureAuthReturn(st, cache, t) ==
    LET s1 == [st EXCEPT !.stack = Pop(@), !.auth.outcome = "ok",
                         !.auth.doneAt = t, !.auth.after = cache,
                         !.nonceData = NoNonce]
    IN  IF s1.stack = <<>> THEN Finish(s1, [NoOutcome EXCEPT !.kind = "return"])
        ELSE IF Top(s1.stack) = "pollJobStatus" THEN SendStatus(s1, cache, t)
        ELSE SendApi(s1, cache)

\* ensureAuth rejects with err.
EnsureAuthThrow(st, cache, t, err) ==
    Throw([st EXCEPT !.auth.outcome = "throw", !.auth.doneAt = t,
                     !.auth.after = cache, !.auth.error = err,
                     !.nonceData = NoNonce], err)

\* The catch block of authenticate(): whatever a step of the flow threw is
\* wrapped and leaves ensureAuth; the cache is not written.
AuthenticateCatch(st, cache, t, err) ==
    EnsureAuthThrow([st EXCEPT !.auth.cause = err], cache, t, AuthenticationFailed(err))

\* authenticate(), up to its first await: the nonce request.
Authenticate(st, cache, t) ==
    IF account = ""
    THEN EnsureAuthThrow(st, cache, t,
                         PlainError("Cannot authenticate without a private key"))
    ELSE Send(st, "nonce",
              [method |-> "GET", path |-> "/auth/nonce", headers |-> {}, body |-> {}],
              "await_nonce")

\* authenticate(), from the nonce reply to the verify request: build the
\* sign-in message, sign it, post both.
SendVerify(st, nonceData, t) ==
    LET message == SiweMessage(account, nonceData, t)
    IN  Send([st EXCEPT !.nonceData = nonceData], "verify",
             [method |-> "POST", path |-> "/auth/verify", headers |-> {},
              body |-> {<<"message", message>>,
                        <<"signature", SignMessage(account, message)>>}],
             "await_verify")

\* Mutant: an expired token goes straight to the full flow.
RefreshAuth_Skipped(st, cache, t) == Authenticate(st, cache, t)

\* refreshAuth(), up to its await; without a cache it returns false at once
\* and ensureAuth goes on to authenticate().
RefreshAuth(st, cache, t) ==
    IF ~cache.present
    THEN Authenticate(st, cache, t)
    ELSE Send(st, "refresh",
              [method |-> "POST", path |-> "/auth/refresh", headers |-> {},
               body |-> {<<"refreshToken", cache.refreshToken>>}],
              "await_refresh")

\* Mutant: the catch block leaves the stale cache in place.
RefreshFailed_KeepsCache(cache) == cache

\* The catch block of refreshAuth(): the cache is dropped.
RefreshFailed(cache) == NoCache

\* ensureAuth(), up to its first await or to its end.
EnsureAuth(st, cache, t) ==
    LET s1 == [st EXCEPT !.stack = Append(@, "ensureAuth"),
                         !.auth = [NoAuthRun EXCEPT !.outcome = "running", !.at = t,
                                                    !.before = cache],
                         !.poll.authRuns = @ + 1]
    IN  IF account = "" THEN EnsureAuthThrow(s1, cache, t, MissingKeyError)
        ELSE IF ~cache.present THEN Authenticate(s1, cache, t)
        ELSE IF TokenValid(cache, t) THEN EnsureAuthReturn(s1, cache, t)
        ELSE RefreshAuth(s1, cache, t)

-----------------------------------------------------------------------------
(* Job poller *)

\* Mutant: half the interval.
PollDelay_Halved == JOB_POLL_INTERVAL_MS \div 2

\* The wait between two polls.
PollDelay == JOB_POLL_INTERVAL_MS

\* Mutant: the budget's last millisecond counted in.
WithinBudget_Inclusive(startTime, t) == t - startTime <= JOB_TIMEOUT_MS

\* The loop condition of pollJobStatus.
WithinBudget(startTime, t) == t - startTime < JOB_TIMEOUT_MS

\* Mutant: ensureAuth only before the first poll.
PollIterate_AuthOnce(st, cache, t) ==
    IF ~WithinBudget(st.startTime, t) THEN Throw(st, JobTimeoutError(st.jobId))
    ELSE IF st.poll.reqAt >= 0 THEN SendStatus(st, cache, t)
    ELSE EnsureAuth(st, cache, t)

\* The head of the polling loop: one more iteration, or the timeout error.
PollIterate(st, cache, t) ==
    IF WithinBudget(st.startTime, t)
    THEN EnsureAuth(st, cache, t)
    ELSE Throw(st, JobTimeoutError(st.jobId))

\* pollJobStatus(jobId), up to its first await.
PollJobStatus(st, jobId, cache, t) ==
    PollIterate([st EXCEPT !.stack = Append(@, "pollJobStatus"), !.jobId = jobId,
                           !.startTime = t, !.poll = NoPollRun],
                cache, t)

\* pollJobStatus returns the job record; a tool handler that awaited it
\* formats its result.
PollReturn(st, data) ==
    LET s1 == [st EXCEPT !.stack = Pop(@)]
    IN  IF s1.stack = <<>> THEN Finish(s1, ReturnJob(data))
        ELSE Finish(s1, ReturnResult(ToolSuccess(s1.stack[1])))

\* pollJobStatus, from a status reply on.
OnJobStatus(st, data, t) ==
    LET s1 == [st EXCEPT !.poll.respAt = t, !.poll.last = data]
    IN  IF data.status = "completed" THEN PollReturn(s1, data)
        ELSE IF data.status = "failed" THEN Throw(s1, JobFailedError(s1.jobId, data))
        ELSE [s1 EXCEPT !.pc = "await_timer", !.req = NoRequest,
                        !.timerDue = t + PollDelay,
                        !.poll.nonTerminal = @ + 1]

\* Mutant: a failed status request is tried again after the usual wait.
OnStatusError_Retries(st, err, t) ==
    [st EXCEPT !.pc = "await_timer", !.req = NoRequest, !.timerDue = t + PollDelay,
               !.poll.error = err]

\* pollJobStatus, when its status request fails: nothing catches the
\* rejection inside the loop, so it leaves pollJobStatus.
OnStatusError(st, err, t) == Throw([st EXCEPT !.poll.error = err], err)

-----------------------------------------------------------------------------
(* Tool handlers *)

\* Mutant: a handler that goes to ensureAuth without asking for the key.
ToolHandler_NoKeyCheck(st, tool, cache, t) ==
    LET s1 == [st EXCEPT !.stack = <<tool>>]
    IN  IF tool \in FreeTools THEN SendApi(s1, cache)
        ELSE EnsureAuth(s1, cache, t)

\* Mutant: a handler that sends its request without calling ensureAuth.
ToolHandler_AuthSkipped(st, tool, cache, t) ==
    LET s1 == [st EXCEPT !.stack = <<tool>>]
    IN  IF tool \in FreeTools THEN SendApi(s1, cache)
        ELSE IF RequiresPrivateKey(privateKey) # NoResult
        THEN Finish(s1, ReturnResult(RequiresPrivateKey(privateKey)))
        ELSE SendApi(s1, cache)

\* A tool handler, up to its first await or to its end.
ToolHandler(st, tool, cache, t) ==
    LET s1 == [st EXCEPT !.stack = <<tool>>]
    IN  IF tool \in FreeTools THEN SendApi(s1, cache)
        ELSE IF RequiresPrivateKey(privateKey) # NoResult
        THEN Finish(s1, ReturnResult(RequiresPrivateKey(privateKey)))
        ELSE EnsureAuth(s1, cache, t)

\* Replies of the domain/DNS/account API: the HTTP status, and the jobId of
\* the body when it has one.
ApiReplies ==
    {[status |-> 200, hasJobId |-> FALSE, jobId |-> ""],
     [status |-> 202, hasJobId |-> FALSE, jobId |-> ""]}
    \cup {[status |-> 202, hasJobId |-> TRUE, jobId |-> j] : j \in JobIds}
    \cup {[status |-> 201, hasJobId |-> TRUE, jobId |-> j] : j \in JobIds}

\* A tool handler, from the reply to its API request on.
OnApiReply(st, reply, cache, t) ==
    LET s1 == [st EXCEPT !.apiStatus = reply.status]
    IN  IF s1.stack[1] \in PollingTools /\ reply.status = 202 /\ reply.hasJobId
        THEN PollJobStatus(s1, reply.jobId, cache, t)
        ELSE Finish(s1, ReturnResult(ToolSuccess(s1.stack[1])))

\* The AxiosError of a 402 reply.
PaymentError(data) ==
    [NoError EXCEPT
       !.axios = TRUE, !.hasResponse = TRUE, !.status = 402,
       !.hasStatusText = TRUE, !.statusText = "Payment Required", !.data = data,
       !.code = "ERR_BAD_REQUEST", !.message = "Request failed with status code 402",
       !.hasBaseURL = TRUE, !.baseURL = ApiUrl]

\* The header the payment wrapper adds to the request it sends again.
PaymentHeader(address) == <<"PAYMENT-SIGNATURE", SignMessage(address, "payment")>>

HasPayment(request) == \E h \in request.headers : h[1] = "PAYMENT-SIGNATURE"

\* Mutant: the request is sent again with a payment whatever the transport.
OnPaymentRequired_AlwaysRetries(st, transport, address, data, paid) ==
    Send([st EXCEPT !.apiStatus = 402], "api",
         [st.req EXCEPT !.headers = @ \cup {PaymentHeader(address)}], "await_api")

\* The first 402 reply to a tool's API request, data being its body.  The
\* plain transport rejects with the AxiosError of the reply, and the
\* handler's catch block formats it.  The wrapped transport is the work of
\* wrapAxiosWithPayment, a library outside the repository: paid tells whether
\* it signs a payment and sends the request again, or leaves the error of the
\* reply to the handler as the plain transport does.
OnPaymentRequired(st, transport, address, data, paid) ==
    IF transport = "x402" /\ paid
    THEN Send([st EXCEPT !.apiStatus = 402], "api",
              [st.req EXCEPT !.headers = @ \cup {PaymentHeader(address)}], "await_api")
    ELSE Throw([st EXCEPT !.apiStatus = 402], PaymentError(data))

-----------------------------------------------------------------------------
(* The state machine *)

\* privateKeyToAccount(key): the wallet library derives the account from the
\* number the 64 hex digits write, and throws unless that number is from 1
\* to the order of the secp256k1 group less one.
PrivateKeyToAccount(key) ==
    LET Order ==
            <<"f", "f", "f", "f", "f", "f", "f", "f", "f", "f", "f", "f", "f", "f", "f", "f",
              "f", "f", "f", "f", "f", "f", "f", "f", "f", "f", "f", "f", "f", "f", "f", "e",
              "b", "a", "a", "e", "d", "c", "e", "6", "a", "f", "4", "8", "a", "0", "3", "b",
              "b", "f", "d", "2", "5", "e", "8", "c", "d", "0", "3", "6", "4", "1", "4", "1">>
        digits == LowerCase(After(key, 2))
        differ == {i \in 1..Len(Order) : digits[i] # Order[i]}
        first == CHOOSE i \in differ : \A j \in differ : i <= j
    IN  IF /\ differ # {}
           /\ HexValue(digits[first]) < HexValue(Order[first])
           /\ \E i \in 1..Len(digits) : digits[i] # "0"
        THEN [thrown |-> FALSE, address |-> "0xWallet"]
        ELSE [thrown |-> TRUE, address |-> ""]

\* A config, its fields as texts.
Config(apiUrl, network, hasPrivateKey, key) ==
    [apiUrl |-> apiUrl, network |-> network, hasPrivateKey |-> hasPrivateKey,
     privateKey |-> key]

\* Before createBloomfilterClient is called.  status: "none" before the call,
\* "failed" when it has thrown, "import_axios" and "import_evm" while it waits
\* for the import of that name, "ready" when it has returned the client.
NoClient ==
    [status |-> "none", config |-> Config(<<>>, <<>>, FALSE, <<>>),
     transport |-> "none", warned |-> FALSE]

\* The client createBloomfilterClient returns.  wrapped: whether the import
\* of the payment library and the wrapping of the axios instance went through;
\* when it did not, the warning is logged and the plain instance stays.
ReadyClient(config, wrapped) ==
    [status |-> "ready", config |-> config,
     transport |-> IF config.hasPrivateKey /\ wrapped THEN "x402" ELSE "plain",
     warned |-> config.hasPrivateKey /\ ~wrapped]

\* config.privateKey as the client keeps it: "" when there is none.
KeyOf(config) == IF config.hasPrivateKey THEN Str(config.privateKey) ELSE ""

ApiUrlText ==
    <<"h", "t", "t", "p", "s", ":", "/", "/", "a", "p", "i", ".", "b", "l", "o", "o", "m",
      "f", "i", "l", "t", "e", "r", ".", "x", "y", "z">>

DefaultNetwork == <<"e", "i", "p", "1", "5", "5", ":", "8", "4", "5", "3">>

HexRun == <<"0", "1", "2", "3", "4", "5", "6", "7", "8", "9", "a", "b", "c", "d", "e", "f">>

ConfiguredKeyText == <<"0", "x">> \o HexRun \o HexRun \o HexRun \o HexRun

\* The configs loadConfig builds from its defaults, with and without a key.
DefaultConfigs ==
    {Config(ApiUrlText, DefaultNetwork, FALSE, <<>>),
     Config(ApiUrlText, DefaultNetwork, TRUE, ConfiguredKeyText)}

Init ==
    /\ \E config \in DefaultConfigs, wrapped \in BOOLEAN :
          /\ client = ReadyClient(config, wrapped)
          /\ privateKey = KeyOf(config)
          /\ account = IF config.hasPrivateKey
                       THEN PrivateKeyToAccount(config.privateKey).address ELSE ""
    /\ tokenCache = NoCache
    /\ now = 0
    /\ issued = 0
    /\ lastWrite = NoWrite
    /\ proc = [p \in Procs |-> IdleProc]

\* A caller's record as an operation is invoked.
Fresh(op, cache) == [IdleProc EXCEPT !.op = op, !.seen = cache]

Step(p, st) == proc' = [proc EXCEPT ![p] = st]

(* Operations a caller invokes *)

CallEnsureAuth(p) ==
    /\ client.status = "ready"
    /\ proc[p].pc = "idle"
    /\ Step(p, EnsureAuth(Fresh("ensureAuth", tokenCache), tokenCache, now))
    /\ UNCHANGED <<client, privateKey, account, tokenCache, now, issued, lastWrite>>

CallGetAuthHeaders(p) ==
    /\ client.status = "ready"
    /\ proc[p].pc = "idle"
    /\ Step(p, Finish(Fresh("getAuthHeaders", tokenCache),
                      [NoOutcome EXCEPT !.kind = "return",
                                        !.headers = GetAuthHeaders(tokenCache)]))
    /\ UNCHANGED <<client, privateKey, account, tokenCache, now, issued, lastWrite>>

CallPollJobStatus(p) ==
    /\ client.status = "ready"
    /\ proc[p].pc = "idle"
    /\ \E j \in JobIds : Step(p, PollJobStatus(Fresh("pollJobStatus", tokenCache), j, tokenCache, now))
    /\ UNCHANGED <<client, privateKey, account, tokenCache, now, issued, lastWrite>>

CallTool(p) ==
    /\ client.status = "ready"
    /\ proc[p].pc = "idle"
    /\ \E tool \in Tools : Step(p, ToolHandler(Fresh(tool, tokenCache), tool, tokenCache, now))
    /\ UNCHANGED <<client, privateKey, account, tokenCache, now, issued, lastWrite>>

(* Replies of the service *)

NonceOk(p) ==
    /\ proc[p].pc = "await_nonce"
    /\ \E nonceData \in NonceResponses : Step(p, SendVerify(proc[p], nonceData, now))
    /\ UNCHANGED <<client, privateKey, account, tokenCache, now, issued, lastWrite>>

NonceFail(p) ==
    /\ proc[p].pc = "await_nonce"
    /\ \E err \in RequestFailures :
          Step(p, AuthenticateCatch(proc[p], tokenCache, now, err))
    /\ UNCHANGED <<client, privateKey, account, tokenCache, now, issued, lastWrite>>

\* The nonce reply arrives, but the sign-in message cannot be built or signed
\* from it: no verify request goes out.
NonceUnusable(p) ==
    /\ proc[p].pc = "await_nonce"
    /\ Step(p, AuthenticateCatch(proc[p], tokenCache, now, SignInMessageError))
    /\ UNCHANGED <<client, privateKey, account, tokenCache, now, issued, lastWrite>>

\* The verify reply with a token set, while the service has issued fewer
\* than `limit`.
VerifyAccepted(p, limit) ==
    /\ proc[p].pc = "await_verify"
    /\ issued < limit
    /\ \E e \in Lifetimes :
          LET authData == TokenResponse(issued + 1, e)
              cache == CacheFromVerify(authData, now)
          IN  /\ tokenCache' = cache
              /\ lastWrite' = [flow |-> "verify", at |-> now, data |-> authData]
              /\ Step(p, EnsureAuthReturn(proc[p], cache, now))
    /\ issued' = issued + 1
    /\ UNCHANGED <<client, privateKey, account, now>>

VerifyFail(p) ==
    /\ proc[p].pc = "await_verify"
    /\ \E err \in RequestFailures :
          Step(p, AuthenticateCatch(proc[p], tokenCache, now, err))
    /\ UNCHANGED <<client, privateKey, account, tokenCache, now, issued, lastWrite>>

\* The verify reply arrives with a null body: building the cache entry throws
\* before tokenCache is assigned.
VerifyUnusable(p) ==
    /\ proc[p].pc = "await_verify"
    /\ Step(p, AuthenticateCatch(proc[p], tokenCache, now, TokenBodyError))
    /\ UNCHANGED <<client, privateKey, account, tokenCache, now, issued, lastWrite>>

\* The refresh reply with a token set, while the service has issued fewer
\* than `limit`.
RefreshAccepted(p, limit) ==
    /\ proc[p].pc = "await_refresh"
    /\ issued < limit
    /\ \E e \in Lifetimes :
          LET data == TokenResponse(issued + 1, e)
              cache == CacheFromRefresh(data, now)
          IN  /\ tokenCache' = cache
              /\ lastWrite' = [flow |-> "refresh", at |-> now, data |-> data]
              /\ Step(p, EnsureAuthReturn([proc[p] EXCEPT !.auth.refreshed = "ok"],
                                          cache, now))
    /\ issued' = issued + 1
    /\ UNCHANGED <<client, privateKey, account, now>>

\* The catch block of refreshAuth drops the cache; ensureAuth goes on to
\* authenticate().
RefreshFail(p) ==
    /\ proc[p].pc = "await_refresh"
    /\ tokenCache' = RefreshFailed(tokenCache)
    /\ lastWrite' = IF tokenCache'.present THEN lastWrite ELSE NoWrite
    /\ Step(p, Authenticate([proc[p] EXCEPT !.auth.refreshed = "failed"],
                            tokenCache', now))
    /\ UNCHANGED <<client, privateKey, account, now, issued>>

StatusOk(p) ==
    /\ proc[p].pc = "await_status"
    /\ \E data \in JobRecords(proc[p].jobId) : Step(p, OnJobStatus(proc[p], data, now))
    /\ UNCHANGED <<client, privateKey, account, tokenCache, now, issued, lastWrite>>

StatusFail(p) ==
    /\ proc[p].pc = "await_status"
    /\ \E err \in RequestFailures : Step(p, OnStatusError(proc[p], err, now))
    /\ UNCHANGED <<client, privateKey, account, tokenCache, now, issued, lastWrite>>

\* The setTimeout of pollJobStatus fires: when it is due by Date.now(), or up
\* to TIMER_EARLY_MS before.
TimerFires(p) ==
    /\ proc[p].pc = "await_timer"
    /\ now >= proc[p].timerDue - TIMER_EARLY_MS
    /\ Step(p, PollIterate(proc[p], tokenCache, now))
    /\ UNCHANGED <<client, privateKey, account, tokenCache, now, issued, lastWrite>>

ApiOk(p) ==
    /\ proc[p].pc = "await_api"
    /\ \E reply \in ApiReplies : Step(p, OnApiReply(proc[p], reply, tokenCache, now))
    /\ UNCHANGED <<client, privateKey, account, tokenCache, now, issued, lastWrite>>

ApiFail(p) ==
    /\ proc[p].pc = "await_api"
    /\ \E err \in RequestFailures :
          Step(p, Throw([proc[p] EXCEPT !.apiStatus = err.status], err))
    /\ UNCHANGED <<client, privateKey, account, tokenCache, now, issued, lastWrite>>

\* The service asks for a payment: the 402 reply to a paid request that
\* carries none.  The body of the reply is the service's: an accepts list
\* with the description of the resource, an accepts list alone, an object
\* without fields, or no body.
ApiPaymentRequired(p) ==
    LET offer == [NoBody EXCEPT
                    !.truthy = TRUE, !.hasAccepts = TRUE,
                    !.offers = <<[hasPrice |-> FALSE, price |-> "",
                                  hasAmount |-> TRUE, amount |-> "9990000",
                                  nullAmount |-> FALSE]>>]
        bodies == {[offer EXCEPT !.hasDescription = TRUE,
                                 !.description = "Register example.com"],
                   offer,
                   [NoBody EXCEPT !.truthy = TRUE],
                   NoBody}
    IN  /\ proc[p].pc = "await_api"
        /\ proc[p].stack[1] \in {"register_domain", "renew_domain", "add_dns_record",
                                "update_dns_record", "delete_dns_record"}
        /\ ~HasPayment(proc[p].req)
        /\ \E data \in bodies, paid \in BOOLEAN :
              Step(p, OnPaymentRequired(proc[p], client.transport, account, data, paid))
        /\ UNCHANGED <<client, privateKey, account, tokenCache, now, issued, lastWrite>>

\* The service turns the payment down: the 402 reply to the request that
\* carried one reaches the handler.
ApiPaymentRejected(p) ==
    /\ proc[p].pc = "await_api"
    /\ HasPayment(proc[p].req)
    /\ Step(p, Throw([proc[p] EXCEPT !.apiStatus = 402],
                     PaymentError([NoBody EXCEPT !.truthy = TRUE, !.hasError = TRUE,
                                                 !.error = "insufficient_funds"])))
    /\ UNCHANGED <<client, privateKey, account, tokenCache, now, issued, lastWrite>>

\* Time passes, to the next multiple of a step.
Tick(limit) ==
    /\ \E d \in {MS_PER_SECOND} :
          LET t == ((now \div d) + 1) * d
          IN  t <= limit /\ now' = t
    /\ UNCHANGED <<client, privateKey, account, tokenCache, issued, lastWrite, proc>>

\* Time passes, to the earliest instant at which p's timer can fire.
TickToTimer(p, limit) ==
    /\ proc[p].pc = "await_timer"
    /\ now < proc[p].timerDue - TIMER_EARLY_MS
    /\ proc[p].timerDue - TIMER_EARLY_MS <= limit
    /\ now' = proc[p].timerDue - TIMER_EARLY_MS
    /\ UNCHANGED <<client, privateKey, account, tokenCache, issued, lastWrite, proc>>

AuthReply(p) ==
    \/ NonceOk(p) \/ NonceFail(p) \/ NonceUnusable(p)
    \/ VerifyAccepted(p, MaxIssued) \/ VerifyFail(p) \/ VerifyUnusable(p)
    \/ RefreshAccepted(p, MaxIssued) \/ RefreshFail(p)

PollReply(p) == StatusOk(p) \/ StatusFail(p) \/ TimerFires(p)

ApiReply(p) ==
    ApiOk(p) \/ ApiFail(p) \/ ApiPaymentRequired(p) \/ ApiPaymentRejected(p)

\* The session manager: one caller invokes ensureAuth and getAuthHeaders,
\* each call ending before the next one starts.
Next == Tick(MaxTime) \/ CallEnsureAuth(1) \/ CallGetAuthHeaders(1) \/ AuthReply(1)

Spec == Init /\ [][Next]_vars

\* The job poller: one caller invokes pollJobStatus.
NextPoll ==
    \/ Tick(MaxTime) \/ TickToTimer(1, MaxTime)
    \/ CallPollJobStatus(1) \/ AuthReply(1) \/ PollReply(1)

SpecPoll == Init /\ [][NextPoll]_vars

\* The tool handlers: one caller invokes tools, and ensureAuth on its own.
NextTools ==
    \/ Tick(MaxToolTime)
    \/ CallTool(1) \/ CallEnsureAuth(1)
    \/ AuthReply(1) \/ PollReply(1) \/ ApiReply(1)

SpecTools == Init /\ [][NextTools]_vars

-----------------------------------------------------------------------------
(* Concurrent callers *)

MaxConcurrentTime == 1000    \* the clock stops here where two callers overlap

\* Two callers invoke ensureAuth on one client; their calls overlap in any
\* way the event loop allows: each reply is handled in a turn of its own.
NextConcurrent ==
    \/ Tick(MaxConcurrentTime)
    \/ \E p \in Procs : CallEnsureAuth(p) \/ AuthReply(p)

SpecConcurrent == Init /\ [][NextConcurrent]_vars

-----------------------------------------------------------------------------
(* Construction of the client *)

MaxCreateTime == 2000    \* the clock stops here where construction is followed

\* The configs createBloomfilterClient is called with: each field varied
\* from the default, with and without a key, and every pair of network and
\* key.  More URL texts are tried without a key: with a query, with user,
\* IPv6 host, port and fragment, in upper case, with an escape in the host,
\* with a scheme that is not special; texts the parser refuses for their
\* port, their IPv4 address, their missing host, their label, a blank, their
\* missing host after @ and their open bracket; a text with a form feed
\* before it and one with a form feed in its host; hosts with a letter
\* outside ASCII, as an xn-- label and as escaped UTF-8; a host whose
\* escaped byte is no UTF-8; and a host that begins with xn-- and goes on
\* with an escaped letter outside ASCII.  The key texts have the shape the schema
\* wants, or not; the last two have the shape and write numbers no key can
\* be, zero and the order of the group.
Configs ==
    LET UrlTexts ==
            {ApiUrlText,
             <<"h", "t", "t", "p", ":", "/", "/", "l", "o", "c", "a", "l", "h", "o", "s", "t",
               ":", "3", "0", "0", "0">>,
             <<"a", "p", "i", ".", "b", "l", "o", "o", "m", "f", "i", "l", "t", "e", "r">>,
             <<"h", "t", "t", "p", "s", ":", "/", "/">>,
             <<"/", "v", "1">>,
             <<>>}
        NetworkTexts ==
            {DefaultNetwork,
             <<"e", "i", "p", "1", "5", "5", ":", "1">>,
             <<"e", "i", "p", "1", "5", "5", ":">>,
             <<"e", "i", "p", "1", "5", "5", ":", "8", "x">>,
             <<"e", "i", "p", "1", "5", "5", ":", "1", ":", "2">>,
             <<"e", "i", "p", "1", "5", "5">>,
             <<"E", "I", "P", "1", "5", "5", ":", "1">>,
             <<"s", "o", "l", "a", "n", "a", ":", "m", "a", "i", "n", "n", "e", "t">>,
             <<"c", "o", "s", "m", "o", "s", ":", "H", "u", "b", "4">>,
             <<"b", "a", "s", "e", "-", "1", ":", "1">>,
             <<":", "1">>,
             <<>>}
        KeyTexts ==
            LET UpperHexRun == <<"0", "1", "2", "3", "4", "5", "6", "7",
                                 "8", "9", "A", "B", "C", "D", "E", "F">>
            IN
            {ConfiguredKeyText,
             <<"0", "x">> \o UpperHexRun \o HexRun \o UpperHexRun \o HexRun,
             <<"0", "x">> \o HexRun \o HexRun \o HexRun \o Tail(HexRun),
             <<"0", "x">> \o HexRun \o HexRun \o HexRun \o HexRun \o <<"0">>,
             HexRun \o HexRun \o HexRun \o HexRun,
             <<"0", "x">> \o HexRun \o HexRun \o HexRun \o Tail(HexRun) \o <<"g">>,
             <<"0", "X">> \o HexRun \o HexRun \o HexRun \o HexRun,
             <<"0", "x">> \o [i \in 1..64 |-> "0"],
             <<"0", "x", "F", "F", "F", "F", "F", "F", "F", "F", "F", "F", "F", "F", "F", "F",
               "F", "F", "F", "F", "F", "F", "F", "F", "F", "F", "F", "F", "F", "F", "F", "F",
               "F", "E", "B", "A", "A", "E", "D", "C", "E", "6", "A", "F", "4", "8", "A", "0",
               "3", "B", "B", "F", "D", "2", "5", "E", "8", "C", "D", "0", "3", "6", "4", "1",
               "4", "1">>,
             <<>>}
        OtherUrlTexts ==
            {<<"h", "t", "t", "p", "s", ":", "/", "/", "a", "p", "i", ".", "b", "l", "o",
               "o", "m", "f", "i", "l", "t", "e", "r", ".", "x", "y", "z", "/", "v", "1",
               "?", "x", "=", "1">>,
             <<"h", "t", "t", "p", ":", "/", "/", "u", "s", "e", "r", "@", "[", ":", ":",
               "1", "]", ":", "8", "0", "8", "0", "/", "#", "f">>,
             <<"H", "T", "T", "P", ":", "/", "/", "L", "O", "C", "A", "L", "H", "O", "S", "T">>,
             <<"h", "t", "t", "p", ":", "/", "/", "a", "%", "4", "1", ",", "b">>,
             <<"m", "a", "i", "l", "t", "o", ":", "a", "@", "b">>,
             <<"h", "t", "t", "p", ":", "/", "/", "a", ":", "b">>,
             <<"h", "t", "t", "p", ":", "/", "/", "a", ":", "6", "5", "5", "3", "6">>,
             <<"h", "t", "t", "p", ":", "/", "/", "a", ":", "8", "0", ":", "8", "0">>,
             <<"h", "t", "t", "p", ":", "/", "/", "2", "5", "6", ".", "1", ".", "1", ".", "1">>,
             <<"h", "t", "t", "p", ":", "/", "/", "1", ".", "2", ".", "3", ".", "4", ".", "5">>,
             <<"f", "t", "p", ":">>,
             <<"H", "t", "t", "p", "s", ":">>,
             <<"h", "t", "t", "p", ":", "/", "/", "x", "n", "-", "-", "a">>,
             <<"h", "t", "t", "p", ":", "/", "/", "a", " ", "b">>,
             <<"h", "t", "t", "p", ":", "/", "/", "u", "s", "e", "r", "@">>,
             <<"h", "t", "t", "p", ":", "/", "/", "[", ":", ":", "1">>,
             <<"\f", "h", "t", "t", "p", ":", "/", "/", "a", ".", "c", "o", "m">>,
             <<"h", "t", "t", "p", ":", "/", "/", "a", "\f", "b", ".", "c", "o", "m">>,
             <<"h", "t", "t", "p", ":", "/", "/", "x", "n", "-", "-", "9", "c", "a">>,
             <<"h", "t", "t", "p", ":", "/", "/", "a", "%", "c", "3", "%", "a", "9">>,
             <<"h", "t", "t", "p", ":", "/", "/", "a", "%", "8", "0">>,
             <<"h", "t", "t", "p", ":", "/", "/", "x", "n", "-", "-", "%", "c", "3", "%", "a",
               "9">>}
    IN
    {Config(u, DefaultNetwork, k, IF k THEN ConfiguredKeyText ELSE <<>>) :
        u \in UrlTexts, k \in BOOLEAN}
    \cup {Config(u, DefaultNetwork, FALSE, <<>>) : u \in OtherUrlTexts}
    \cup {Config(ApiUrlText, n, FALSE, <<>>) : n \in NetworkTexts}
    \cup {Config(ApiUrlText, n, TRUE, key) : n \in NetworkTexts, key \in KeyTexts}

InitBlank ==
    /\ client = NoClient
    /\ privateKey = ""
    /\ account = ""
    /\ tokenCache = NoCache
    /\ now = 0
    /\ issued = 0
    /\ lastWrite = NoWrite
    /\ proc = [p \in Procs |-> IdleProc]

\* createBloomfilterClient(config), from the call to its first await or to
\* its end.  The config is parsed first; then the axios instance is made and,
\* when there is a key, the account is derived from it.  When the parsing or
\* the derivation throws, no client is returned; the derivation throws after
\* the plain axios instance has been made.  Without a key the client is
\* returned with the plain instance; with one the function waits for
\* import("@x402/axios"), the account being assigned already.
CreateBloomfilterClient ==
    /\ client.status = "none"
    /\ \E config \in Configs :
          \E parsed \in ConfigSchemaParse(config) :
             IF ~parsed
             THEN /\ client' = [NoClient EXCEPT !.status = "failed", !.config = config]
                  /\ UNCHANGED <<privateKey, account>>
             ELSE IF ~config.hasPrivateKey
             THEN /\ client' = ReadyClient(config, FALSE)
                  /\ UNCHANGED <<privateKey, account>>
             ELSE IF PrivateKeyToAccount(config.privateKey).thrown
             THEN /\ client' = [NoClient EXCEPT !.status = "failed", !.config = config,
                                                !.transport = "plain"]
                  /\ UNCHANGED <<privateKey, account>>
             ELSE /\ client' = [NoClient EXCEPT !.status = "import_axios",
                                                !.config = config, !.transport = "plain"]
                  /\ privateKey' = KeyOf(config)
                  /\ account' = PrivateKeyToAccount(config.privateKey).address
    /\ UNCHANGED <<tokenCache, now, issued, lastWrite, proc>>

\* The import of "@x402/axios" settles.  When it resolves, the function
\* waits for import("@x402/evm"); when it rejects, the catch logs the warning
\* and the client is returned with the plain instance.
ImportX402Axios ==
    /\ client.status = "import_axios"
    /\ \E resolved \in BOOLEAN :
          client' = IF resolved
                    THEN [client EXCEPT !.status = "import_evm"]
                    ELSE ReadyClient(client.config, FALSE)
    /\ UNCHANGED <<privateKey, account, tokenCache, now, issued, lastWrite, proc>>

\* The import of "@x402/evm" settles.  When it resolves and the registering
\* of the scheme and the wrapping go through, the client is returned with the
\* wrapped instance; when the import rejects or one of these throws, the
\* catch logs the warning and the client is returned with the plain instance.
ImportX402Evm ==
    /\ client.status = "import_evm"
    /\ \E wrapped \in BOOLEAN : client' = ReadyClient(client.config, wrapped)
    /\ UNCHANGED <<privateKey, account, tokenCache, now, issued, lastWrite, proc>>

\* A caller constructs a client and then invokes tools and ensureAuth.
NextCreate ==
    \/ CreateBloomfilterClient
    \/ ImportX402Axios
    \/ ImportX402Evm
    \/ Tick(MaxCreateTime)
    \/ CallTool(1) \/ CallEnsureAuth(1)
    \/ AuthReply(1) \/ PollReply(1) \/ ApiReply(1)

SpecCreate == InitBlank /\ [][NextCreate]_vars

-----------------------------------------------------------------------------
(* The error classifier on its own *)

\* Response bodies: none (or an empty one), and objects with any choice of
\* the fields formatToolError reads; resource.description is absent, empty,
\* or a text.  The accepts field is absent, or a list of offers; an offer's
\* price is a text or nullish, its amount a text, null, or not there.
ResponseBodies ==
    LET NoOffer ==
            [hasPrice |-> FALSE, price |-> "", hasAmount |-> FALSE, amount |-> "",
             nullAmount |-> FALSE]
        AcceptsFields ==
            {<<FALSE, <<>>>>,
             <<TRUE, <<>>>>,
             <<TRUE, <<[NoOffer EXCEPT !.hasPrice = TRUE, !.price = "$9.99",
                                       !.hasAmount = TRUE, !.amount = "9990000"],
                       [NoOffer EXCEPT !.hasPrice = TRUE, !.price = "$1.00"]>>>>,
             <<TRUE, <<[NoOffer EXCEPT !.hasAmount = TRUE, !.amount = "9990000"]>>>>,
             <<TRUE, <<[NoOffer EXCEPT !.nullAmount = TRUE]>>>>,
             <<TRUE, <<NoOffer>>>>}
    IN
    {NoBody} \cup
    {[truthy |-> TRUE, hasAccepts |-> acc[1], offers |-> acc[2],
      hasDescription |-> d[1], description |-> d[2],
      hasMessage |-> m, message |-> IF m THEN "message text" ELSE "",
      hasError |-> e, error |-> IF e THEN "error text" ELSE "",
      hasDetail |-> dt, detail |-> IF dt THEN "detail text" ELSE "",
      hasCode |-> c, code |-> IF c THEN "SERVER_CODE" ELSE ""] :
        acc \in AcceptsFields,
        d \in {<<FALSE, "">>, <<TRUE, "">>, <<TRUE, "Register example.com">>},
        m \in BOOLEAN, e \in BOOLEAN, dt \in BOOLEAN, c \in BOOLEAN}

\* The AxiosError of a reply whose status is outside 2xx.
ResponseError(status, data) ==
    [NoError EXCEPT
       !.axios = TRUE, !.hasResponse = TRUE, !.status = status,
       !.hasStatusText = TRUE,
       !.statusText = CASE status = 400 -> "Bad Request"
                        [] status = 402 -> "Payment Required"
                        [] status = 429 -> "Too Many Requests"
                        [] OTHER -> "Internal Server Error",
       !.data = data,
       !.code = IF status >= 500 THEN "ERR_BAD_RESPONSE" ELSE "ERR_BAD_REQUEST",
       !.message = "Request failed with status code " \o ToString(status),
       !.hasBaseURL = TRUE, !.baseURL = ApiUrl]

\* AxiosErrors of requests that got no reply; error.config?.baseURL is
\* absent, the configured URL, or an empty string.
NetworkErrors ==
    {[NoError EXCEPT !.axios = TRUE, !.code = c, !.message = "request error " \o c,
                     !.hasBaseURL = u[1], !.baseURL = u[2]] :
        c \in {"ECONNREFUSED", "ENOTFOUND", "ECONNABORTED", "ERR_CANCELED", "ERR_NETWORK"},
        u \in {<<FALSE, "">>, <<TRUE, ApiUrl>>, <<TRUE, "">>}}
    \cup {[NoError EXCEPT !.axios = TRUE, !.hasMessage = FALSE]}

\* Thrown values that are no AxiosError: Error objects, and values that are
\* no Error objects.
OtherThrown ==
    LET StringValue(text) == [NoValue EXCEPT !.kind = "string", !.text = text]
        NumberValue(num) == [NoValue EXCEPT !.kind = "number", !.num = num]
        BooleanValue(flag) == [NoValue EXCEPT !.kind = "boolean", !.flag = flag]
        KindValue(kind) == [NoValue EXCEPT !.kind = kind]
        ArrayValue(items) == [NoValue EXCEPT !.kind = "array", !.items = items]
        ThrownValues ==
            {StringValue("boom"), StringValue(""), NumberValue(42), NumberValue(-1),
             KindValue("nan"), BooleanValue(TRUE), BooleanValue(FALSE),
             KindValue("null"), KindValue("undefined"), KindValue("object"),
             KindValue("bare"),
             [NoValue EXCEPT !.kind = "symbol", !.text = "boom"],
             [NoValue EXCEPT !.kind = "stringable", !.text = "boom"],
             ArrayValue(<<>>),
             ArrayValue(<<NumberValue(1), NumberValue(2)>>),
             ArrayValue(<<KindValue("null"), StringValue("a"), KindValue("undefined")>>),
             ArrayValue(<<ArrayValue(<<NumberValue(1), KindValue("object")>>),
                          BooleanValue(TRUE)>>),
             ArrayValue(<<NumberValue(1), KindValue("bare")>>),
             ArrayValue(<<[NoValue EXCEPT !.kind = "symbol", !.text = "s"]>>),
             ArrayValue(<<KindValue("bare"),
                          [NoValue EXCEPT !.kind = "symbol", !.text = "s"]>>),
             ArrayValue(<<[NoValue EXCEPT !.kind = "symbol", !.text = "s"],
                          KindValue("bare")>>),
             ArrayValue(<<ArrayValue(<<[NoValue EXCEPT !.kind = "symbol",
                                                       !.text = "s"]>>)>>),
             ArrayValue(<<NumberValue(1),
                          ArrayValue(<<NumberValue(2),
                                       [NoValue EXCEPT !.kind = "symbol",
                                                       !.text = "inner"]>>)>>)}
    IN  {MissingKeyError, AuthenticationFailed(Http500), JobTimeoutError("job-1"),
         [NoError EXCEPT !.hasMessage = FALSE],
         AuthenticationFailed([NoError EXCEPT !.hasMessage = FALSE])}
        \cup {[NoError EXCEPT !.instanceOfError = FALSE, !.value = v] :
                 v \in ThrownValues}

\* The errors formatToolError is called with.  Among them are replies with
\* a body without the payment fields whose statusText is missing, as a reply
\* over HTTP/2 or a mocked one has it, or empty.
ToolErrors ==
    LET ResponseStatuses == {400, 402, 429, 500}
        UnnamedResponseErrors ==
            {[ResponseError(status, data) EXCEPT !.hasStatusText = h, !.statusText = ""] :
                status \in ResponseStatuses,
                data \in {b \in ResponseBodies : ~b.hasAccepts /\ ~b.hasDescription},
                h \in BOOLEAN}
    IN
    {ResponseError(status, data) : status \in ResponseStatuses, data \in ResponseBodies}
    \cup UnnamedResponseErrors \cup NetworkErrors \cup OtherThrown

\* formatToolError(error, apiUrl), called on its own: with every error and
\* no apiUrl, as the tool handlers call it, and with the errors of failed
\* connections and an apiUrl that is left out, a URL, or an empty string.
CallFormatToolError(p) ==
    /\ client.status = "ready"
    /\ proc[p].pc = "idle"
    /\ \E call \in {<<error, NoApiUrl>> : error \in ToolErrors}
                   \cup (NetworkErrors
                         \X {NoApiUrl, [has |-> TRUE, text |-> "http://localhost:3000"],
                             [has |-> TRUE, text |-> ""]}) :
          Step(p, Finish([Fresh("formatToolError", tokenCache)
                             EXCEPT !.arg = call[1], !.apiUrlArg = call[2]],
                         FormatToolError(call[1], call[2])))
    /\ UNCHANGED <<client, privateKey, account, tokenCache, now, issued, lastWrite>>

SpecFormat == Init /\ [][CallFormatToolError(1)]_vars

-----------------------------------------------------------------------------
(* The job poller against its timeout budget *)

MaxPollIssued == 8     \* token sets the service issues while a job is polled

\* Every request is answered by this time; the clock goes beyond it only to
\* let the last timer fire.
LastReplyTime == JOB_TIMEOUT_MS + JOB_POLL_INTERVAL_MS

\* Time passes, from one instant to a later one.  The instants are those the
\* clock takes while a job is polled to its timeout: the first polls, and
\* the polls around the end of the budget.  No request awaits its reply
\* beyond LastReplyTime.
TickInstant ==
    /\ \E t \in {0, JOB_POLL_INTERVAL_MS,
                 JOB_TIMEOUT_MS - JOB_POLL_INTERVAL_MS,
                 JOB_TIMEOUT_MS - TIMER_EARLY_MS, JOB_TIMEOUT_MS,
                 JOB_TIMEOUT_MS + JOB_POLL_INTERVAL_MS,
                 JOB_TIMEOUT_MS + JOB_POLL_INTERVAL_MS + JOB_POLL_INTERVAL_MS} :
          /\ t > now
          /\ t > LastReplyTime =>
                 \A p \in Procs :
                     proc[p].pc \notin {"await_nonce", "await_verify", "await_refresh",
                                        "await_status", "await_api"}
          /\ now' = t
    /\ UNCHANGED <<client, privateKey, account, tokenCache, issued, lastWrite, proc>>

\* pollJobStatus is invoked early enough for its budget to end by LastReplyTime.
CallPollJobStatusEarly(p) ==
    /\ now + JOB_TIMEOUT_MS <= LastReplyTime
    /\ CallPollJobStatus(p)

\* The status reply of a job that has not ended.
StatusNonTerminal(p) ==
    /\ proc[p].pc = "await_status"
    /\ \E data \in {d \in JobRecords(proc[p].jobId) : d.status \in {"pending", "processing"}} :
          Step(p, OnJobStatus(proc[p], data, now))
    /\ UNCHANGED <<client, privateKey, account, tokenCache, now, issued, lastWrite>>

\* The replies to a poller whose job never ends: every request is answered,
\* the refresh request with new tokens or with a refusal, every other one
\* successfully.
UnendingJobReply(p) ==
    \/ NonceOk(p)
    \/ VerifyAccepted(p, MaxPollIssued)
    \/ RefreshAccepted(p, MaxPollIssued)
    \/ RefreshFail(p)
    \/ StatusNonTerminal(p)

NextUnending ==
    TickInstant \/ CallPollJobStatusEarly(1) \/ UnendingJobReply(1) \/ TimerFires(1)

\* Time advances, every request is answered and every timer fires.
SpecUnending ==
    /\ Init
    /\ [][NextUnending]_vars
    /\ WF_vars(TickInstant)
    /\ WF_vars(UnendingJobReply(1))
    /\ WF_vars(TimerFires(1))

-----------------------------------------------------------------------------
(* The tool handlers over the whole timeout budget *)

\* Time passes, from one instant to a later one.  The instants are those the
\* clock takes while a tool polls its job to the timeout: the first polls,
\* the last poll and the end of the budget.
TickHandlerInstant ==
    /\ \E t \in {0, JOB_POLL_INTERVAL_MS, JOB_TIMEOUT_MS - JOB_POLL_INTERVAL_MS,
                 JOB_TIMEOUT_MS} :
          t > now /\ now' = t
    /\ UNCHANGED <<client, privateKey, account, tokenCache, issued, lastWrite, proc>>

\* One caller invokes tools while the clock goes through these instants;
\* every reply the service can give is possible.
NextHandlers ==
    TickHandlerInstant \/ CallTool(1) \/ AuthReply(1) \/ PollReply(1) \/ ApiReply(1)

SpecHandlers == Init /\ [][NextHandlers]_vars

-----------------------------------------------------------------------------
(* A tool invocation overlapped by another caller *)

\* A tool is invoked: one wallet-requiring tool of each shape, a read, a paid
\* change, and a paid registration that polls its job.
CallOverlappedTool(p) ==
    /\ client.status = "ready"
    /\ proc[p].pc = "idle"
    /\ \E tool \in {"get_domain_info", "add_dns_record", "register_domain"} :
          Step(p, ToolHandler(Fresh(tool, tokenCache), tool, tokenCache, now))
    /\ UNCHANGED <<client, privateKey, account, tokenCache, now, issued, lastWrite>>

\* One caller invokes these tools while another invokes ensureAuth on the
\* same client; their awaits interleave in any order.  The clock stands
\* still: a token of the shortest lifetime has expired as soon as it is
\* cached, and a job that has not ended is not polled again.
NextOverlap ==
    \/ CallOverlappedTool(1)
    \/ AuthReply(1) \/ ApiReply(1) \/ StatusOk(1) \/ StatusFail(1)
    \/ CallEnsureAuth(2) \/ AuthReply(2)

SpecOverlap == Init /\ [][NextOverlap]_vars

-----------------------------------------------------------------------------
(* Properties of the session manager *)

\* The latest run of ensureAuth by p started with a wallet and a cached token
\* that had not expired / that had expired.
StartedValid(p) ==
    /\ proc[p].auth.outcome # "none"
    /\ account # ""
    /\ proc[p].auth.before.present
    /\ proc[p].auth.at < proc[p].auth.before.expiresAt

StartedExpired(p) ==
    /\ proc[p].auth.outcome # "none"
    /\ account # ""
    /\ proc[p].auth.before.present
    /\ proc[p].auth.at >= proc[p].auth.before.expiresAt

StartedWithoutCache(p) ==
    /\ proc[p].auth.outcome # "none"
    /\ account # ""
    /\ ~proc[p].auth.before.present

\* C1: a run of ensureAuth that starts with a wallet and a cached token whose
\* expiresAt is strictly after the current time returns at once, successfully,
\* having issued no request at all (no nonce, verify or refresh request), and
\* the token cache is what it was before the call.
C1_FastPath ==
    \A p \in Procs :
        StartedValid(p) =>
            /\ proc[p].pc = "idle"
            /\ proc[p].auth.outcome = "ok"
            /\ proc[p].outcome.kind = "return"
            /\ proc[p].auth.log = <<>>
            /\ proc[p].calls = NoCounts
            /\ proc[p].auth.doneAt = proc[p].auth.at
            /\ proc[p].auth.after = proc[p].auth.before
            /\ tokenCache = proc[p].auth.before

C1_Witness ==
    /\ StartedValid(1)
    /\ proc[1].op = "ensureAuth"
    /\ proc[1].outcome.kind = "return"
    /\ proc[1].auth.at > lastWrite.at

\* C2: a run of ensureAuth that starts with a wallet and no cache, is not
\* overlapped by another call, and succeeds has issued exactly one nonce
\* request followed by exactly one verify request and no refresh request, and
\* the cache then holds the access token and the refresh token of that verify
\* reply.
C2_FirstAuthentication ==
    \A p \in Procs :
        (StartedWithoutCache(p) /\ proc[p].op = "ensureAuth"
             /\ proc[p].auth.outcome = "ok") =>
            /\ proc[p].auth.log = <<"nonce", "verify">>
            /\ proc[p].calls = [NoCounts EXCEPT !.nonce = 1, !.verify = 1]
            /\ lastWrite.flow = "verify"
            /\ tokenCache.present
            /\ tokenCache.accessToken = lastWrite.data.accessToken
            /\ tokenCache.refreshToken = lastWrite.data.refreshToken
            /\ tokenCache.accessToken # tokenCache.refreshToken

C2_Witness ==
    /\ StartedWithoutCache(1)
    /\ proc[1].op = "ensureAuth"
    /\ proc[1].auth.outcome = "ok"
    /\ issued = 1

\* C3: a run of ensureAuth that starts with a cached token whose expiresAt is
\* not after the current time issues one refresh request before anything
\* else; when the refresh succeeds the run ends there, with no nonce or verify
\* request; when it fails, one nonce request follows, then at most one verify
\* request, and nothing more.
C3_ExpiredToken ==
    \A p \in Procs :
        StartedExpired(p) =>
            /\ Len(proc[p].auth.log) >= 1
            /\ proc[p].auth.log[1] = "refresh"
            /\ proc[p].auth.refreshed = "none" =>
                   /\ proc[p].auth.log = <<"refresh">>
                   /\ proc[p].pc = "await_refresh"
            /\ proc[p].auth.refreshed = "ok" =>
                   /\ proc[p].auth.log = <<"refresh">>
                   /\ proc[p].auth.outcome = "ok"
            /\ proc[p].auth.refreshed = "failed" =>
                   /\ proc[p].auth.log \in {<<"refresh", "nonce">>,
                                            <<"refresh", "nonce", "verify">>}
                   /\ proc[p].auth.outcome = "ok" =>
                          proc[p].auth.log = <<"refresh", "nonce", "verify">>
                   /\ proc[p].pc = "await_nonce" =>
                          proc[p].auth.log = <<"refresh", "nonce">>

C3_Witness ==
    /\ StartedExpired(1)
    /\ proc[1].auth.refreshed = "failed"
    /\ proc[1].auth.outcome = "ok"

\* The errors authenticate() raises when a step of the full flow fails.
AuthenticationFailures ==
    {PlainError("Authentication failed: " \o err.message) : err \in RequestFailures \cup {SignInMessageError, TokenBodyError}}

\* C4: after a failed refresh request the token cache is absent, and the
\* failure does not reach the caller: the run of ensureAuth (not overlapped by
\* another call) goes on to the full flow and ends either in success or in an
\* "Authentication failed" error of that flow, and in the latter case the
\* cache is still absent.
C4_RefreshFailureRecovered ==
    \A p \in Procs :
        proc[p].auth.refreshed = "failed" =>
            /\ proc[p].auth.outcome \in {"running", "ok", "throw"}
            /\ proc[p].auth.outcome = "running" =>
                   /\ proc[p].pc \in {"await_nonce", "await_verify"}
                   /\ ~tokenCache.present
            /\ proc[p].auth.outcome = "ok" =>
                   /\ tokenCache.present
                   /\ lastWrite.flow = "verify"
            /\ proc[p].auth.outcome = "throw" =>
                   /\ proc[p].auth.error \in AuthenticationFailures
                   /\ proc[p].outcome = Thrown(proc[p].auth.error)
                   /\ ~tokenCache.present

C4_Witness ==
    /\ proc[1].auth.refreshed = "failed"
    /\ proc[1].auth.outcome = "throw"

\* The latest run of ensureAuth by p went through the full flow or through a
\* refresh and ended in success.
CompletedThroughFlow(p) ==
    /\ proc[p].auth.outcome = "ok"
    /\ proc[p].auth.log # <<>>

\* C5 as stated: whenever ensureAuth completes successfully through the full
\* flow or through a refresh, the cache is present and the time of completion
\* is strictly before its expiresAt, whatever lifetime the token reply carries.
C5_ValidAfterAuth_AnyLifetime ==
    \A p \in Procs :
        CompletedThroughFlow(p) =>
            /\ proc[p].auth.after.present
            /\ proc[p].auth.doneAt < proc[p].auth.after.expiresAt

\* C5, amended: whenever ensureAuth completes successfully through the full
\* flow or through a refresh and the token reply carried a lifetime of more
\* than 60 seconds, the cache is present and the time of completion is
\* strictly before its expiresAt.
C5_ValidAfterAuth ==
    \A p \in Procs :
        (CompletedThroughFlow(p) /\ lastWrite.data.expiresIn > 60) =>
            /\ proc[p].auth.after.present
            /\ proc[p].auth.after = tokenCache
            /\ proc[p].auth.doneAt < proc[p].auth.after.expiresAt

C5_Witness ==
    /\ CompletedThroughFlow(1)
    /\ proc[1].auth.refreshed = "ok"
    /\ lastWrite.data.expiresIn > 60

\* C6: the cached expiresAt is the time at which the token reply was
\* processed, plus expiresIn * 1000 ms, minus 60000 ms, for a reply of the
\* verify request and for a reply of the refresh request alike.
C6_ExpiryMargin ==
    tokenCache.present =>
        /\ lastWrite.flow \in {"verify", "refresh"}
        /\ tokenCache.expiresAt = lastWrite.at + lastWrite.data.expiresIn * 1000 - 60000

C6_Witness ==
    /\ tokenCache.present
    /\ lastWrite.flow = "refresh"
    /\ lastWrite.at > 0

\* C7: getAuthHeaders returns no header when there is no cache, and otherwise
\* exactly one header, Authorization: "Bearer " followed by the cached access
\* token as it is, expired or not; it issues no request and leaves the cache
\* as it was.
C7_GetAuthHeadersPureRead ==
    \A p \in Procs :
        proc[p].op = "getAuthHeaders" =>
            /\ proc[p].pc = "idle"
            /\ proc[p].outcome.kind = "return"
            /\ ~proc[p].seen.present => proc[p].outcome.headers = {}
            /\ proc[p].seen.present =>
                   /\ Cardinality(proc[p].outcome.headers) = 1
                   /\ proc[p].outcome.headers =
                          {<<"Authorization", "Bearer " \o proc[p].seen.accessToken>>}
            /\ proc[p].calls = NoCounts
            /\ proc[p].req = NoRequest
            /\ tokenCache = proc[p].seen

C7_Witness ==
    /\ proc[1].op = "getAuthHeaders"
    /\ proc[1].seen.present
    /\ now >= proc[1].seen.expiresAt
    /\ proc[1].outcome.headers # {}

\* The clock values up to now.
ClockValues == {k * 1000 : k \in 0..(now \div 1000)}

\* The sign-in text binding an address to the fields of a nonce reply.
SignInText(address, nonceData, t) ==
    nonceData.domain \o " wants you to sign in with your Ethereum account:\n"
        \o address \o "\n\n\n"
        \o "URI: " \o nonceData.uri \o "\n"
        \o "Version: 1\n"
        \o "Chain ID: " \o ToString(nonceData.chainId) \o "\n"
        \o "Nonce: " \o nonceData.nonce \o "\n"
        \o "Issued At: " \o ToString(t)

\* The verify request posts a sign-in text that binds the wallet's address
\* to the nonce, domain, uri and chain id of the nonce reply in hand, and the
\* wallet's signature of that text.
VerifyBindsNonceReply(p) ==
    proc[p].pc = "await_verify" =>
        /\ proc[p].nonceData \in NonceResponses
        /\ proc[p].req.method = "POST" /\ proc[p].req.path = "/auth/verify"
        /\ \E t \in ClockValues :
              proc[p].req.body =
                  {<<"message", SignInText("0xWallet", proc[p].nonceData, t)>>,
                   <<"signature",
                     "sig[0xWallet](" \o SignInText("0xWallet", proc[p].nonceData, t) \o ")">>}

\* C18 as stated: every nonce request carries the address of the wallet, and
\* the signed message binds that address to the fields of the nonce reply.
C18_NonceScopedToAddress ==
    \A p \in Procs :
        /\ proc[p].pc = "await_nonce" =>
               \/ \E f \in proc[p].req.headers \cup proc[p].req.body : f[2] = account
               \/ proc[p].req.path \in {"/auth/nonce?address=" \o account,
                                         "/auth/nonce/" \o account}
        /\ VerifyBindsNonceReply(p)

\* C18, amended: the nonce request is GET /auth/nonce and carries nothing,
\* no address either; the signed message binds the wallet's address to the
\* nonce, domain, uri and chain id of the nonce reply.
C18_SignInBindsAddress ==
    \A p \in Procs :
        /\ proc[p].pc = "await_nonce" =>
               /\ account = "0xWallet"
               /\ proc[p].req = [method |-> "GET", path |-> "/auth/nonce",
                                 headers |-> {}, body |-> {}]
        /\ VerifyBindsNonceReply(p)

C18_Witness ==
    /\ proc[1].pc = "await_verify"
    /\ proc[1].nonceData.chainId = 84532
    /\ proc[1].auth.refreshed = "failed"
    /\ now > proc[1].auth.at

\* The requests a run of the full flow has issued when it fails: the nonce
\* request, and the verify request when the failure came after it; after a
\* failed refresh, the refresh request before them.
FailedFlowLogs ==
    {<<"nonce">>, <<"nonce", "verify">>,
     <<"refresh", "nonce">>, <<"refresh", "nonce", "verify">>}

\* C21: when a step of the full authentication flow fails (the nonce request,
\* building or signing the message, the verify request, building the cache
\* entry), ensureAuth rejects with a plain error whose message is
\* "Authentication failed: " followed by the message of the cause, and the
\* token cache is what it was when the flow started: absent.
C21_AuthenticationFailureWrapped ==
    \A p \in Procs :
        (account # "" /\ proc[p].auth.outcome = "throw") =>
            /\ proc[p].pc = "idle"
            /\ proc[p].auth.log \in FailedFlowLogs
            /\ proc[p].auth.cause # NoError
            /\ proc[p].auth.error.message =
                   "Authentication failed: " \o proc[p].auth.cause.message
            /\ ~proc[p].auth.error.axios
            /\ ~proc[p].auth.error.hasResponse
            /\ proc[p].auth.error.instanceOfError
            /\ proc[p].op = "ensureAuth" =>
                   /\ proc[p].outcome.kind = "throw"
                   /\ proc[p].outcome.error = proc[p].auth.error
            /\ proc[p].auth.refreshed # "failed" =>
                   proc[p].auth.after = proc[p].auth.before
            /\ ~proc[p].auth.after.present
            /\ ~tokenCache.present
            /\ lastWrite = NoWrite

\* The flow fails at its last step, the cache entry, after a failed refresh.
C21_Witness ==
    /\ proc[1].op = "ensureAuth"
    /\ proc[1].auth.outcome = "throw"
    /\ proc[1].auth.log = <<"refresh", "nonce", "verify">>
    /\ proc[1].auth.cause = TokenBodyError
    /\ proc[1].outcome.error.message =
           "Authentication failed: Cannot read properties of null (reading 'accessToken')"

-----------------------------------------------------------------------------
(* Properties of a client without a private key *)

\* C8: on a client constructed without a private key every call of ensureAuth
\* rejects with the missing-key error and every call of a wallet-requiring
\* tool returns the missing-key result, each before any request is issued;
\* the only operations that ever issue a request are search_domains and
\* get_pricing.
C8_MissingKeyIsLocal ==
    privateKey = "" =>
        \A p \in Procs :
            /\ proc[p].op = "ensureAuth" =>
                   /\ proc[p].pc = "idle"
                   /\ proc[p].outcome.kind = "throw"
                   /\ proc[p].outcome.error.message =
                          "BLOOMFILTER_PRIVATE_KEY is required for authenticated operations"
                   /\ proc[p].calls = NoCounts
            /\ proc[p].op \in WalletTools =>
                   /\ proc[p].pc = "idle"
                   /\ proc[p].outcome.kind = "return"
                   /\ proc[p].outcome.result = KeyRequiredResult
                   /\ proc[p].outcome.result.isError
                   /\ proc[p].calls = NoCounts
            /\ (proc[p].pc # "idle" \/ proc[p].calls # NoCounts) =>
                   /\ proc[p].op \in {"search_domains", "get_pricing"}
                   /\ proc[p].calls = [NoCounts EXCEPT !.api = 1]

C8_Witness ==
    /\ privateKey = ""
    /\ proc[1].op = "delete_dns_record"
    /\ proc[1].outcome.result.isError
    /\ now > 0

-----------------------------------------------------------------------------
(* Properties of the job poller *)

\* C9 as stated: when pollJobStatus returns, it returns the job record of the
\* last status reply, whose status is completed, and it has issued one status
\* request more than the number of replies that said pending or processing
\* (one request when there were none) and none after the completed reply;
\* each status request after the first starts at least 2000 ms after the
\* reply before it arrived.
C9_PollUntilCompleted_AsStated ==
    \A p \in Procs :
        proc[p].op = "pollJobStatus" =>
            /\ proc[p].calls.status <= proc[p].poll.nonTerminal + 1
            /\ (proc[p].pc = "await_status" /\ proc[p].poll.respAt >= 0) =>
                   proc[p].poll.reqAt - proc[p].poll.respAt >= 2000
            /\ proc[p].poll.last.status = "completed" =>
                   /\ proc[p].pc = "idle"
                   /\ proc[p].outcome = ReturnJob(proc[p].poll.last)
            /\ proc[p].outcome.kind = "return" =>
                   /\ proc[p].outcome.job.status = "completed"
                   /\ proc[p].outcome.job = proc[p].poll.last
                   /\ proc[p].calls.status = proc[p].poll.nonTerminal + 1

\* C9, amended: the same, except that each status request after the first
\* starts at least 1999 ms by Date.now() after the reply before it arrived:
\* the wait is a setTimeout of 2000 ms, which can fire 1 ms early by that
\* clock.
C9_PollUntilCompleted ==
    \A p \in Procs :
        proc[p].op = "pollJobStatus" =>
            /\ proc[p].calls.status <= proc[p].poll.nonTerminal + 1
            /\ (proc[p].pc = "await_status" /\ proc[p].poll.respAt >= 0) =>
                   proc[p].poll.reqAt - proc[p].poll.respAt >= 1999
            /\ proc[p].poll.last.status = "completed" =>
                   /\ proc[p].pc = "idle"
                   /\ proc[p].outcome = ReturnJob(proc[p].poll.last)
            /\ proc[p].outcome.kind = "return" =>
                   /\ proc[p].outcome.job.status = "completed"
                   /\ proc[p].outcome.job = proc[p].poll.last
                   /\ proc[p].calls.status = proc[p].poll.nonTerminal + 1

\* The job completed on the fourth poll, less than three times 2000 ms after
\* the first: a timer fired early.
C9_Witness ==
    /\ proc[1].op = "pollJobStatus"
    /\ proc[1].outcome.kind = "return"
    /\ proc[1].poll.nonTerminal = 3
    /\ proc[1].poll.respAt - proc[1].startTime < 6000

\* C10: when a status reply says failed, pollJobStatus rejects in the same
\* turn, with no wait and no further status request: with the job's error
\* message when the reply has one, with the generic provisioning-failure
\* message otherwise; it returns no job record.
C10_PollJobFailed ==
    \A p \in Procs :
        (proc[p].op = "pollJobStatus" /\ proc[p].poll.last.status = "failed") =>
            /\ proc[p].pc = "idle"
            /\ proc[p].outcome.kind = "throw"
            /\ proc[p].outcome.job = NoJob
            /\ ~proc[p].outcome.error.axios
            /\ proc[p].poll.last.hasError =>
                   proc[p].outcome.error.message = proc[p].poll.last.error
            /\ ~proc[p].poll.last.hasError =>
                   proc[p].outcome.error.message =
                       "Job " \o proc[p].jobId
                           \o " failed: domain provisioning was unsuccessful"
            /\ proc[p].calls.status = proc[p].poll.nonTerminal + 1

C10_Witness ==
    /\ proc[1].op = "pollJobStatus"
    /\ proc[1].poll.last.status = "failed"
    /\ proc[1].poll.last.hasError
    /\ proc[1].poll.nonTerminal = 2

\* C12: every status request of pollJobStatus follows a run of ensureAuth of
\* its own that ended in success in the same turn, so the operation has
\* started as many runs of ensureAuth as it has issued status requests (one
\* more while a run is under way or when a run failed); the request carries
\* exactly the bearer header of the cache as that run left it, and when the
\* cached token had expired at the start of the run, the header carries a
\* token obtained by that run, not the expired one.
C12_AuthBeforeEachPoll ==
    \A p \in Procs :
        proc[p].op = "pollJobStatus" =>
            /\ proc[p].auth.outcome \in {"none", "ok"} =>
                   proc[p].poll.authRuns = proc[p].calls.status
            /\ proc[p].auth.outcome \in {"running", "throw"} =>
                   proc[p].poll.authRuns = proc[p].calls.status + 1
            /\ proc[p].pc = "await_status" =>
                   /\ proc[p].auth.outcome = "ok"
                   /\ proc[p].auth.doneAt = proc[p].poll.reqAt
                   /\ proc[p].auth.after.present
                   /\ proc[p].auth.after = tokenCache
                   /\ proc[p].req.headers =
                          {<<"Authorization", "Bearer " \o proc[p].auth.after.accessToken>>}
                   /\ StartedExpired(p) =>
                          /\ proc[p].auth.log # <<>>
                          /\ proc[p].auth.after.accessToken
                                 # proc[p].auth.before.accessToken

\* The third poll goes out with a token refreshed after the wait.
C12_Witness ==
    /\ proc[1].op = "pollJobStatus"
    /\ proc[1].pc = "await_status"
    /\ proc[1].calls.status = 3
    /\ StartedExpired(1)
    /\ proc[1].auth.refreshed = "ok"
    /\ proc[1].auth.at > proc[1].poll.respAt

-----------------------------------------------------------------------------
(* Properties of the job poller's timeout *)

\* The text of the timeout error for p's job.
TimeoutText(p) ==
    "Job " \o proc[p].jobId \o " timed out after 300s. "
        \o "The domain may still be provisioning -- check status later with get_domain_info."

TimedOut(p) ==
    /\ proc[p].op = "pollJobStatus"
    /\ proc[p].pc = "idle"
    /\ proc[p].outcome.kind = "throw"
    /\ proc[p].outcome.error.message = TimeoutText(p)

Polling(p) == proc[p].op = "pollJobStatus" /\ proc[p].pc # "idle"

\* The timeout error is not raised while less than 300000 ms have passed
\* since the poll began.
NoEarlyTimeout ==
    \A p \in Procs : TimedOut(p) => now - proc[p].startTime >= 300000

\* C11 as stated: for a job that never ends, pollJobStatus eventually fails
\* with the timeout error; no status request starts once 300000 ms or more
\* have passed since the poll began; the timeout error is not raised before
\* 300000 ms have passed.
C11_TimeoutAsStated ==
    /\ [](\A p \in Procs :
             (proc[p].op = "pollJobStatus" /\ proc[p].poll.reqAt >= 0) =>
                 proc[p].poll.reqAt - proc[p].startTime < 300000)
    /\ []NoEarlyTimeout
    /\ \A p \in {1} : Polling(p) ~> TimedOut(p)

\* C11, amended: for a job that never ends, pollJobStatus eventually fails
\* with the timeout error; no iteration (its run of ensureAuth, then its status
\* request) begins once 300000 ms or more have passed since the poll began,
\* and every status request belongs to an iteration begun before that; the
\* timeout error is not raised before 300000 ms have passed.
C11_Timeout ==
    /\ [](\A p \in Procs :
             (proc[p].op = "pollJobStatus" /\ proc[p].auth.outcome # "none") =>
                 /\ proc[p].auth.at - proc[p].startTime < 300000
                 /\ proc[p].pc = "await_status" =>
                        /\ proc[p].auth.outcome = "ok"
                        /\ proc[p].poll.reqAt = proc[p].auth.doneAt
                        /\ proc[p].poll.reqAt >= proc[p].auth.at)
    /\ []NoEarlyTimeout
    /\ \A p \in {1} : Polling(p) ~> TimedOut(p)

\* The poll timed out, and its last status request started after the budget
\* had run out, in an iteration begun before.
C11_Witness ==
    /\ TimedOut(1)
    /\ proc[1].poll.nonTerminal >= 3
    /\ proc[1].poll.reqAt - proc[1].startTime >= 300000
    /\ proc[1].auth.at - proc[1].startTime < 300000

-----------------------------------------------------------------------------
(* Properties of the error classifier *)

Formatted(p) == proc[p].op = "formatToolError" /\ proc[p].outcome.kind = "return"

\* C13: for every AxiosError whose response has status 429, whatever its body
\* (none, an object without fields, one with accepts, one with message, error,
\* detail or code), formatToolError returns the rate-limited text, with the
\* body's message when it has one and "Too many requests" otherwise.
C13_RateLimitedFirst ==
    \A p \in Procs :
        (Formatted(p) /\ proc[p].arg.axios /\ proc[p].arg.hasResponse
             /\ proc[p].arg.status = 429) =>
            /\ proc[p].outcome.result.isError
            /\ proc[p].outcome.result.text =
                   "Rate limited: "
                       \o (IF proc[p].arg.data.hasMessage THEN proc[p].arg.data.message
                           ELSE "Too many requests")
                       \o ". Please wait before retrying."

C13_Witness ==
    /\ Formatted(1)
    /\ proc[1].arg.status = 429
    /\ proc[1].arg.data.hasAccepts
    /\ proc[1].arg.data.hasCode
    /\ proc[1].arg.data.hasError
    /\ ~proc[1].arg.data.hasMessage
    /\ proc[1].outcome.result.text = "Rate limited: Too many requests. Please wait before retrying."

\* The amount the payment-required text names: the first offer's price, else
\* its amount (the word null for an amount that is null), else the word
\* undefined.
FirstOfferAmount(data) ==
    IF data.offers = <<>> THEN "undefined"
    ELSE LET first == Head(data.offers)
         IN  IF first.hasPrice THEN first.price
             ELSE IF first.hasAmount THEN first.amount
             ELSE IF first.nullAmount THEN "null" ELSE "undefined"

PaymentRequiredTexts(data) ==
    {"Payment required: " \o detail \o ". Ensure your wallet has sufficient USDC balance." :
        detail \in {"Payment of " \o FirstOfferAmount(data) \o " USDC required",
                    data.description \o " requires payment of "
                        \o FirstOfferAmount(data) \o " USDC"}}

PaymentFailedTexts ==
    {"Payment failed: " \o detail
         \o ". Check that your wallet has sufficient USDC balance on Base." :
        detail \in {"message text", "error text", "detail text",
                    "payment was attempted but could not be settled on-chain"}}

\* C14: for every AxiosError whose response has status 402, formatToolError
\* returns a payment-required text naming the first offer's price or amount
\* when the body has an accepts list, and a payment-failed text in every other
\* case, the 402 without a body included.
C14_PaymentClassification ==
    \A p \in Procs :
        (Formatted(p) /\ proc[p].arg.axios /\ proc[p].arg.hasResponse
             /\ proc[p].arg.status = 402) =>
            /\ proc[p].outcome.result.isError
            /\ proc[p].arg.data.hasAccepts =>
                   proc[p].outcome.result.text \in PaymentRequiredTexts(proc[p].arg.data)
            /\ ~proc[p].arg.data.hasAccepts =>
                   proc[p].outcome.result.text \in PaymentFailedTexts

\* C15: for every thrown value (an AxiosError with any status, body and code,
\* another Error, a value that is no Error), formatToolError returns, without
\* throwing, a result of one shape: the error flag, set, and one text, not
\* empty.
C15_UniformErrorResult ==
    \A p \in Procs :
        proc[p].op = "formatToolError" =>
            /\ proc[p].pc = "idle"
            /\ proc[p].outcome.kind = "return"
            /\ proc[p].outcome.error = NoError
            /\ proc[p].outcome.result.isError = TRUE
            /\ DOMAIN proc[p].outcome.result = {"isError", "text"}
            /\ proc[p].outcome.result.text # ""

-----------------------------------------------------------------------------
(* Properties of construction *)

\* The grammar ^[a-z0-9]+:[a-zA-Z0-9]+$ : a namespace, a colon, a reference.
Caip2Grammar(network) ==
    \E i \in 2..(Len(network) - 1) :
        /\ network[i] = ":"
        /\ AllIn(SubSeq(network, 1, i - 1), LowerLetters \cup Digits)
        /\ AllIn(After(network, i), LowerLetters \cup UpperLetters \cup Digits)

\* 0x followed by exactly 64 hex digits.
KeyShape(key) ==
    /\ Len(key) = 66
    /\ key[1] = "0" /\ key[2] = "x"
    /\ \A i \in 3..66 : key[i] \in HexDigits

\* Nothing has been set up and no request has gone out.
NothingSetUp ==
    /\ account = ""
    /\ privateKey = ""
    /\ client.transport = "none"
    /\ tokenCache = NoCache
    /\ \A p \in Procs : proc[p] = IdleProc

\* The texts tried as apiUrl that are absolute URLs by the URL Standard:
\* https and http URLs with a host, with port, query, user, IPv6 address and
\* fragment, in capital letters, with an escaped letter in the host, with
\* a form feed before the scheme (blanks and controls at the ends are
\* stripped), with a host outside ASCII written as an xn-- label and as
\* escaped UTF-8, and a mailto URL.  Every other text tried has no scheme, no
\* host, no valid port, IPv4 address or domain label, or an open bracket.
AbsoluteUrlTexts ==
    LET http == <<"h", "t", "t", "p", ":", "/", "/">>
    IN  {ApiUrlText,
         ApiUrlText \o <<"/", "v", "1", "?", "x", "=", "1">>,
         http \o <<"l", "o", "c", "a", "l", "h", "o", "s", "t", ":", "3", "0", "0", "0">>,
         http \o <<"u", "s", "e", "r", "@", "[", ":", ":", "1", "]", ":", "8", "0", "8", "0",
                   "/", "#", "f">>,
         <<"H", "T", "T", "P", ":", "/", "/", "L", "O", "C", "A", "L", "H", "O", "S", "T">>,
         http \o <<"a", "%", "4", "1", ",", "b">>,
         <<"m", "a", "i", "l", "t", "o", ":", "a", "@", "b">>,
         <<"\f">> \o http \o <<"a", ".", "c", "o", "m">>,
         http \o <<"x", "n", "-", "-", "9", "c", "a">>,
         http \o <<"a", "%", "c", "3", "%", "a", "9">>}

\* The config has the form claimed: apiUrl an absolute URL, network of the
\* grammar, privateKey absent or of the shape.
ClaimedConfig(config) ==
    /\ config.apiUrl \in AbsoluteUrlTexts
    /\ Caip2Grammar(config.network)
    /\ config.hasPrivateKey => KeyShape(config.privateKey)

\* C16: createBloomfilterClient returns a client exactly for the configs whose
\* apiUrl is an absolute URL, whose network matches ^[a-z0-9]+:[a-zA-Z0-9]+$
\* and whose privateKey is absent or 0x and 64 hex digits; for every other
\* config it fails with no wallet, no transport and no request.
C16_ConfigValidation ==
    /\ client.status \in {"ready", "failed"} =>
           (client.status = "ready" <=> ClaimedConfig(client.config))
    /\ client.status = "failed" => NothingSetUp

\* A key is configured and the payment wrapping failed at construction.
Degraded ==
    /\ client.status = "ready"
    /\ client.config.hasPrivateKey
    /\ client.warned

\* The client works without the payment wrapping: it has the plain transport
\* and its wallet account; ensureAuth does not fail for want of a key or an
\* account; a free tool whose request is answered returns its result; no
\* request is sent again with a payment, and a paid tool whose request gets
\* a 402 reply returns an error after that one request.
DegradedClientWorks ==
    /\ client.transport = "plain"
    /\ privateKey = Str(client.config.privateKey)
    /\ account = "0xWallet"
    /\ \A p \in Procs :
          /\ proc[p].auth.outcome = "throw" =>
                 proc[p].auth.error \in AuthenticationFailures
          /\ proc[p].op \in WalletTools =>
                 proc[p].outcome.result # KeyRequiredResult
          /\ (proc[p].op \in FreeTools /\ proc[p].apiStatus \in {200, 202}) =>
                 /\ proc[p].pc = "idle"
                 /\ ~proc[p].outcome.result.isError
          /\ \A h \in proc[p].req.headers : h[1] = "Authorization"
          /\ proc[p].calls.api <= 1
          /\ proc[p].apiStatus = 402 =>
                 /\ proc[p].pc = "idle"
                 /\ proc[p].calls.api = 1
                 /\ proc[p].outcome.kind = "return"
                 /\ proc[p].outcome.result.isError

\* The payment-required text for a 402 body: it names the resource when the
\* body describes it, and the amount of the first offer.
PaymentRequiredText(data) ==
    "Payment required: "
        \o (IF data.hasDescription
            THEN data.description \o " requires payment of " \o FirstOfferAmount(data)
                     \o " USDC"
            ELSE "Payment of " \o FirstOfferAmount(data) \o " USDC required")
        \o ". Ensure your wallet has sufficient USDC balance."

\* C17, as claimed: when the payment wrapping fails while a key is
\* configured, a client is returned all the same and works as above, and a
\* paid tool whose request gets a 402 reply, whatever its body, returns the
\* payment-required error.
C17_DegradedPayments ==
    Degraded =>
        /\ DegradedClientWorks
        /\ \A p \in Procs :
              proc[p].apiStatus = 402 =>
                  proc[p].outcome.result.text = PaymentRequiredText(proc[p].caught.data)

\* C17, amended: when the payment wrapping fails while a key is configured,
\* a client is returned all the same and works as above, and a paid tool
\* whose request gets a 402 reply with an accepts list in its body returns
\* the payment-required error.
C17_DegradedPaymentsOffered ==
    Degraded =>
        /\ DegradedClientWorks
        /\ \A p \in Procs :
              (proc[p].apiStatus = 402 /\ proc[p].caught.data.hasAccepts) =>
                  proc[p].outcome.result.text = PaymentRequiredText(proc[p].caught.data)

\* A degraded client authenticated, asked to register a domain and got a
\* 402 reply with an accepts list.
C17_Witness ==
    /\ Degraded
    /\ proc[1].op = "register_domain"
    /\ proc[1].auth.outcome = "ok"
    /\ proc[1].apiStatus = 402
    /\ proc[1].caught.data.hasAccepts
    /\ proc[1].outcome.result.isError

-----------------------------------------------------------------------------
(* Properties of concurrent callers *)

\* The latest runs of ensureAuth by both callers started with a wallet and no
\* cache, neither after the other had ended, and both ended in success.
BothAuthenticatedFromNothing ==
    /\ \A p \in Procs :
          /\ proc[p].op = "ensureAuth"
          /\ StartedWithoutCache(p)
          /\ proc[p].auth.outcome = "ok"
    /\ proc[1].auth.at <= proc[2].auth.doneAt
    /\ proc[2].auth.at <= proc[1].auth.doneAt

\* C19: when two calls of ensureAuth overlap on a client with a wallet and no
\* cache and both succeed, each has issued its own nonce request and its own
\* verify request (two of each in total) and no refresh request, and the cache
\* then holds the access token, the refresh token and the expiresAt of one
\* verify reply, the one handled last.
C19_DuplicateFlowsConverge ==
    BothAuthenticatedFromNothing =>
        /\ \A p \in Procs :
              /\ proc[p].auth.log = <<"nonce", "verify">>
              /\ proc[p].calls = [NoCounts EXCEPT !.nonce = 1, !.verify = 1]
        /\ proc[1].auth.after.accessToken # proc[2].auth.after.accessToken
        /\ tokenCache.present
        /\ tokenCache \in {proc[1].auth.after, proc[2].auth.after}
        /\ lastWrite.flow = "verify"
        /\ lastWrite.at = IF proc[1].auth.doneAt >= proc[2].auth.doneAt
                          THEN proc[1].auth.doneAt ELSE proc[2].auth.doneAt
        /\ tokenCache.accessToken = lastWrite.data.accessToken
        /\ tokenCache.refreshToken = lastWrite.data.refreshToken
        /\ tokenCache.expiresAt = lastWrite.at + lastWrite.data.expiresIn * 1000 - 60000
        /\ proc[1].auth.doneAt > proc[2].auth.doneAt => tokenCache = proc[1].auth.after
        /\ proc[2].auth.doneAt > proc[1].auth.doneAt => tokenCache = proc[2].auth.after

\* Caller 2 started while caller 1 was under way and ended first.
C19_Witness ==
    /\ BothAuthenticatedFromNothing
    /\ proc[1].auth.at < proc[2].auth.doneAt
    /\ proc[2].auth.at < proc[1].auth.doneAt
    /\ tokenCache = proc[1].auth.after
    /\ tokenCache.accessToken = "access-2"

\* The number of the token set a cache holds, 0 for no cache.
Generation(cache) ==
    IF ~cache.present THEN 0
    ELSE CHOOSE n \in 1..(MaxIssued + MaxPollIssued) :
             cache.accessToken = "access-" \o ToString(n)

\* Caller p has a refresh request in flight that submitted the refresh token
\* of this cache.
SubmittedRefreshTokenOf(p, cache) ==
    /\ proc[p].pc = "await_refresh"
    /\ proc[p].req.body = {<<"refreshToken", cache.refreshToken>>}

\* C20: under every interleaving of concurrent calls of ensureAuth the cache
\* only advances: a step that replaces cached tokens puts a newer token set in
\* their place, and a step that drops cached tokens is the failure of the
\* refresh request that submitted the refresh token of those very tokens; a
\* failed refresh that submitted an older refresh token leaves newer cached
\* tokens in place.
C20_MonotonicCache ==
    [][tokenCache.present =>
          /\ tokenCache'.present => Generation(tokenCache') >= Generation(tokenCache)
          /\ ~tokenCache'.present =>
                 \E p \in Procs :
                     /\ SubmittedRefreshTokenOf(p, tokenCache)
                     /\ proc'[p].auth.refreshed = "failed"]_vars

-----------------------------------------------------------------------------
(* Properties of the tool handlers *)

\* The invocation of a tool by p has ended.
ToolEnded(p) == proc[p].op \in Tools /\ proc[p].pc = "idle"

\* The job the tool polled had not ended when the polling stopped, though
\* every run of ensureAuth and every status request had succeeded.
PolledToTimeout(p) ==
    /\ proc[p].jobId # ""
    /\ proc[p].poll.last.status \in {"pending", "processing"}
    /\ proc[p].auth.outcome = "ok"
    /\ ~proc[p].caught.axios

\* The texts formatToolError gives for the failed requests of this model.
RequestFailureText(err) ==
    CASE err.status = 500 -> "Error [INTERNAL]: internal error"
      [] err.status = 402 /\ err.data.hasAccepts -> PaymentRequiredText(err.data)
      [] err.status = 402 /\ ~err.data.hasAccepts /\ err.data.hasError ->
           "Payment failed: insufficient_funds. "
               \o "Check that your wallet has sufficient USDC balance on Base."
      [] err.status = 402 /\ ~err.data.hasAccepts /\ ~err.data.hasError /\ err.data.truthy ->
           "Payment failed: payment was attempted but could not be settled on-chain. "
               \o "Check that your wallet has sufficient USDC balance on Base."
      [] err.status = 402 /\ ~err.data.truthy ->
           "Request failed: Request failed with status code 402"
      [] OTHER -> "Request timed out. The Bloomfilter API may be slow or unreachable."

\* C22: the invocation of a tool never ends in a thrown error: it ends with
\* a result.  When ensureAuth failed, when the API request or a status
\* request failed, when the job failed or the polling timed out, the result
\* has isError = true and the text formatToolError gives for that failure; a
\* result without isError is returned only when nothing failed.
C22_HandlersNeverThrow ==
    \A p \in Procs :
        proc[p].op \in Tools =>
            /\ proc[p].outcome.kind # "throw"
            /\ ToolEnded(p) =>
                   /\ proc[p].outcome.kind = "return"
                   /\ proc[p].outcome.error = NoError
                   /\ proc[p].auth.outcome = "throw" =>
                          /\ proc[p].outcome.result.isError
                          /\ proc[p].outcome.result.text =
                                 "Error: " \o proc[p].auth.error.message
                          /\ proc[p].calls.api = 0 =>
                                 proc[p].calls.status = 0
                   /\ proc[p].poll.last.status = "failed" =>
                          /\ proc[p].outcome.result.isError
                          /\ proc[p].outcome.result.text =
                                 "Error: "
                                 \o (IF proc[p].poll.last.hasError
                                     THEN proc[p].poll.last.error
                                     ELSE "Job " \o proc[p].jobId
                                          \o " failed: domain provisioning was unsuccessful")
                   /\ PolledToTimeout(p) =>
                          /\ proc[p].outcome.result.isError
                          /\ proc[p].outcome.result.text = "Error: " \o TimeoutText(p)
                          /\ now - proc[p].startTime >= 300000
                   /\ proc[p].caught.axios =>
                          /\ proc[p].outcome.result.isError
                          /\ proc[p].outcome.result.text =
                                 RequestFailureText(proc[p].caught)
                   /\ ~proc[p].outcome.result.isError =>
                          /\ proc[p].caught = NoError
                          /\ proc[p].auth.outcome \in {"none", "ok"}
                          /\ proc[p].poll.last.status \in {"", "completed"}
                          /\ proc[p].apiStatus \in {200, 201, 202}
                   /\ proc[p].outcome.result.isError =>
                          \/ proc[p].caught # NoError
                          \/ privateKey = "" /\ proc[p].calls = NoCounts

\* register_domain polled its job until the budget ran out.
C22_Witness ==
    /\ ToolEnded(1)
    /\ proc[1].op = "register_domain"
    /\ PolledToTimeout(1)
    /\ proc[1].poll.nonTerminal >= 3
    /\ proc[1].outcome.result.isError

\* The access tokens the service has issued so far.
IssuedAccessTokens == {"access-" \o ToString(n) : n \in 1..issued}

\* The tool invoked by p has begun to poll a job.
PollingBegun(p) == proc[p].jobId # "" \/ proc[p].calls.status > 0

\* C23: in the invocation of a wallet-requiring tool the API request goes out
\* only after the handler's run of ensureAuth has ended in success, in the
\* turn in which it ended, and carries one Authorization header, "Bearer "
\* followed by the access token the cache held at that moment, a token the
\* service issued; when that run of ensureAuth fails the invocation ends
\* without any request to the domain, DNS or account API and without a status
\* request; only register_domain and renew_domain poll a job, and only after
\* a 202 reply with a jobId.
C23_AuthBeforeApiRequest ==
    \A p \in Procs :
        proc[p].op \in WalletTools =>
            /\ proc[p].pc = "await_api" =>
                   /\ proc[p].auth.outcome = "ok"
                   /\ proc[p].auth.after.present
                   /\ proc[p].auth.after.accessToken \in IssuedAccessTokens
                   /\ <<"Authorization", "Bearer " \o proc[p].auth.after.accessToken>>
                          \in proc[p].req.headers
                   /\ \A h \in proc[p].req.headers :
                          h[1] = "Authorization" =>
                              h[2] = "Bearer " \o proc[p].auth.after.accessToken
                   /\ proc[p].req.path \in {ApiRequest(proc[p].op, {}).path}
                   /\ proc[p].poll.authRuns = 1
            /\ (proc[p].calls.api > 0 /\ ~PollingBegun(p)) =>
                   proc[p].auth.outcome = "ok"
            /\ (proc[p].auth.outcome = "throw" /\ ~PollingBegun(p)) =>
                   /\ proc[p].pc = "idle"
                   /\ proc[p].calls.api = 0
                   /\ proc[p].calls.status = 0
                   /\ proc[p].outcome.result.isError
            /\ proc[p].auth.outcome = "running" =>
                   proc[p].req.path \in {"/auth/nonce", "/auth/verify", "/auth/refresh"}
            /\ PollingBegun(p) =>
                   /\ proc[p].op \in PollingTools
                   /\ proc[p].apiStatus = 202
                   /\ proc[p].jobId \in JobIds
                   /\ proc[p].calls.api >= 1
            /\ (proc[p].pc = "idle" /\ proc[p].apiStatus \in {200, 201}) =>
                   ~PollingBegun(p)

\* The request of add_dns_record, sent again with a payment, is under way
\* with the token its run of ensureAuth obtained by a refresh, while the
\* other caller's failed refresh has dropped the cache since.
C23_Witness ==
    /\ proc[1].op = "add_dns_record"
    /\ proc[1].pc = "await_api"
    /\ proc[1].calls.api = 2
    /\ proc[1].auth.refreshed = "ok"
    /\ ~tokenCache.present
    /\ proc[2].pc # "idle"

-----------------------------------------------------------------------------
(* Properties of the job poller under failures *)

\* C24: pollJobStatus does not try again after an error.  When a status
\* request fails (a timeout, a 500 reply), the operation ends in that turn
\* with that very error, though the job had not ended and the budget was not
\* used up, having issued one status request per pending/processing reply
\* and the failed one; when a run of ensureAuth fails, the operation ends in
\* that turn with that run's error, without the status request of that
\* iteration.  No request and no timer is left pending.
C24_PollDoesNotRetry ==
    \A p \in Procs :
        proc[p].op = "pollJobStatus" =>
            /\ proc[p].poll.error # NoError =>
                   /\ proc[p].poll.error \in RequestFailures
                   /\ proc[p].pc = "idle"
                   /\ proc[p].req = NoRequest
                   /\ proc[p].outcome.kind = "throw"
                   /\ proc[p].outcome.error = proc[p].poll.error
                   /\ proc[p].outcome.job = NoJob
                   /\ proc[p].poll.last.status \in {"", "pending", "processing"}
                   /\ proc[p].calls.status = proc[p].poll.nonTerminal + 1
                   /\ proc[p].poll.authRuns = proc[p].calls.status
                   /\ proc[p].auth.outcome = "ok"
                   /\ proc[p].poll.reqAt - proc[p].startTime < 300000
            /\ proc[p].auth.outcome = "throw" =>
                   /\ proc[p].pc = "idle"
                   /\ proc[p].req = NoRequest
                   /\ proc[p].outcome.kind = "throw"
                   /\ proc[p].outcome.error = proc[p].auth.error
                   /\ proc[p].outcome.job = NoJob
                   /\ proc[p].poll.error = NoError
                   /\ proc[p].poll.last.status \in {"", "pending", "processing"}
                   /\ proc[p].calls.status = proc[p].poll.nonTerminal
                   /\ proc[p].poll.authRuns = proc[p].calls.status + 1
                   /\ proc[p].auth.at - proc[p].startTime < 300000

\* The third status request timed out after two replies that said the job
\* had not ended.
C24_Witness ==
    /\ proc[1].op = "pollJobStatus"
    /\ proc[1].poll.error = RequestTimeout
    /\ proc[1].poll.nonTerminal = 2
    /\ proc[1].calls.status = 3
    /\ now - proc[1].startTime < JOB_TIMEOUT_MS

=============================================================================
